---- MODULE Spec2Model ----
(***************************************************************************)
(* Model of the irmin-go streaming client: Client.CallStream (the JSON     *)
(* stream decoder), Conn.Watch and Conn.WatchPath (the watch goroutines    *)
(* layered on it), together with the consumer of the returned channel.     *)
(*                                                                         *)
(* JSON text is modelled after lexing: a JSON value is a tagged record and *)
(* a JSON string holds its decoded bytes (a sequence of 0..255).  The      *)
(* response body is an opening token followed by array elements and a      *)
(* terminator; the server's next element is chosen when the client reads   *)
(* it, and every element read is recorded in `wire`.                       *)
(***************************************************************************)
EXTENDS Integers, Sequences, FiniteSets, TLC

VARIABLES
  api,          \* which call the caller made: "stream", "watch", "watchpath",
                \* "codec" for a Value put through its JSON codec, "kv" for
                \* a caller of Update, ReadString and Head, "path" for a
                \* Path put through URL and ParseEncodedPath, or "view" for
                \* a caller of the methods of a View
  server,       \* "finite": the body ends; "endless": replies never stop;
                \* "faulty": endless, and the first message is malformed;
                \* "long": the first message is malformed, more messages
                \* follow than the channel of CallStream holds, and the body ends;
                \* "store": a watch reply follows each change of the watched key
  open,         \* first token of the body as read by dec.Token ("" = unread)
  wire,         \* array elements read from the body so far, in order
  term,         \* terminator met after the elements: "", "close" (]) or "eof"
  cpc,          \* CallStream's position
  cret,         \* CallStream's return value [ch, err] (valid once cpc = "done")
  streamToken,  \* streamToken.Stream, shared by the handshake and the decoder
  wg,           \* the sync.WaitGroup counter
  closer,       \* the goroutine that closes the body: "none", "waiting", "done"
  bodyClosed,   \* number of res.Body.Close() calls made
  dpc,          \* decode goroutine: "none", "read", "send", "done"
  ds,           \* the StreamReply the decode goroutine is about to send
  ch,           \* buffer of the channel made by CallStream
  chClosed,     \* close(ch) has run
  apc,          \* Watch / WatchPath position: "call", "spawn", "return", "done"
  aret,         \* Watch / WatchPath return value [ch, err]
  werr,         \* Watch's err variable, shared with its goroutine
  wpc,          \* watch goroutine: "none", "recv", "item", "send", "done"
  wmsg,         \* watch goroutine: decoded payload of the message in hand
  widx,         \* watch goroutine: index of the next entry of wmsg
  wcur,         \* watch goroutine: the item about to be sent on out
  out,          \* buffer of the channel made by Watch / WatchPath
  outClosed,    \* close(out) has run
  msgs,         \* StreamReplies the watch goroutine has taken from ch, in order
  got,          \* items the consumer has received, in order
  abandoned,    \* the consumer has stopped receiving for good
  panicked,     \* a goroutine panicked: the process is gone
  firstCommit,  \* the resume commit given to Watch / WatchPath (nil or bytes)
  request,      \* the HTTP request CallStream issued: method and body params
  status,       \* res.StatusCode of the response (0 = no response)
  value,        \* codec: the Value given to MarshalJSON
  text,         \* codec: the JSON text MarshalJSON returned
  back,         \* codec: what UnmarshalJSON made of text, [err, val]
  vpc,          \* codec: "none", "marshal", "unmarshal", "done"
  updates,      \* store: the Update calls made on the watched key, in order
  store,        \* store: what the watched key holds, [has, val]
  rd,           \* kv: the last ReadString call and what it returned
  hd,           \* kv: the last Head call and what it returned
  ppath,        \* path: the Path whose URL is taken
  purl,         \* path: path.URL().String(), [panic, str]
  pback,        \* path: what ParseEncodedPath made of purl.str, [err, val]
  ppc,          \* path: "none", "url", "parse", "done", or "text" and
                \* "parsed" for a text given to the two parsers
  ptext,        \* path: the text given to ParsePath and ParseEncodedPath
  proot,        \* path: what the two parsers made of ptext, each with the
                \* String() and the URL of the Path it returned
  view,         \* view: the View the caller holds, [head, node, path]
  vcalls        \* view: the calls made on the View, in order, each with the
                \* node its command named, the server's answer, what it
                \* returned and the View before and after

codecVars == <<value, text, back, vpc>>
storeVars == <<updates, store, rd, hd>>
pathVars  == <<ppath, purl, pback, ppc, ptext, proot>>
viewVars  == <<view, vcalls>>
connVars  == <<api, server, open, wire, term, firstCommit, request, status, codecVars,
               storeVars, pathVars, viewVars>>
callVars  == <<cpc, cret, streamToken>>
closeVars == <<wg, closer, bodyClosed>>
decVars   == <<dpc, ds, ch, chClosed>>
apiVars   == <<apc, aret, werr>>
watchVars == <<wpc, wmsg, widx, wcur, out, outClosed, msgs>>
userVars  == <<got, abandoned, panicked>>
vars == <<connVars, callVars, closeVars, decVars, apiVars, watchVars, userVars>>

----------------------------------------------------------------------------
(* Bounds of the model and constants of the program *)

\* Longest stream explored for a bare CallStream: array elements after the
\* start and version elements.
MaxWire == 3
\* Longest stream explored for Watch and WatchPath, counted the same way.
MaxWatchWire == 2
\* Items a consumer of an endless stream takes before it stops.
MaxGot == 2
\* Longest Value put through the codec.
MaxValueLen == 3
\* Most Update calls made while the watch is open.
MaxUpdates == 2
\* Most segments of a Path put through URL and ParseEncodedPath.
MaxPathLen == 2
\* Longest segment of such a Path.
MaxSegLen == 2
\* Most calls made on a View.
MaxViewCalls == 2
\* Capacity of the channel made by CallStream: make(chan *StreamReply, 100).
ChanCap == 100
\* Capacity of the channel made by Watch and WatchPath: make(chan ..., 1).
OutCap == 1

----------------------------------------------------------------------------
(* JSON values *)

JStr(s)  == [t |-> "str",  v |-> s]
JNum(n)  == [t |-> "num",  v |-> <<n>>]
JArr(a)  == [t |-> "arr",  v |-> a]
JObj(f)  == [t |-> "obj",  v |-> f]
JNull    == [t |-> "null", v |-> <<>>]
\* A json.RawMessage that was never set (nil, length 0).
Absent   == [t |-> "none", v |-> <<>>]
\* What ends the elements of the body: the closing ] or the end of the body.
TokClose == [t |-> "close", v |-> <<>>]
TokEOF   == [t |-> "eof",   v |-> <<>>]
Terms    == {TokClose, TokEOF}

\* ASCII strings used on the wire.
StrStart == <<115, 116, 97, 114, 116>>   \* "start"
StrEnd   == <<101, 110, 100>>            \* "end"
StrOther == <<110, 111>>                 \* "no"
StrV1    == <<118, 49>>                  \* "v1"
StrFoo   == <<102, 111, 111>>            \* "foo"
StrBar   == <<98, 97, 114>>              \* "bar"
StrBaz   == <<98, 97, 122>>              \* "baz"
StrAB12  == <<97, 98, 49, 50>>           \* "ab12"
StrCD    == <<67, 100>>                  \* "Cd"
StrZZ    == <<122, 122>>                 \* "zz"
StrABC   == <<97, 98, 99>>               \* "abc"
StrFF    == <<102, 102>>                 \* "ff"
StrPlus  == <<43>>                       \* "+"
StrStar  == <<42>>                       \* "*"
StrMinus == <<45>>                       \* "-"
StrA     == <<97>>                       \* "a"
StrB     == <<98>>                       \* "b"
StrSlashAB == <<47, 97, 47, 98>>         \* "/a/b"
StrHei   == <<104, 101, 105>>            \* "hei"

----------------------------------------------------------------------------
(* encoding/hex and the Value codec *)

\* hex.fromHexChar: the nibble of one character, -1 when it is no hex digit.
FromHexChar(c) ==
  IF c >= 48 /\ c <= 57 THEN c - 48
  ELSE IF c >= 97 /\ c <= 102 THEN c - 97 + 10
  ELSE IF c >= 65 /\ c <= 70 THEN c - 65 + 10
  ELSE -1

\* hex.DecodeString: the bytes of the leading well-formed pairs, and an error
\* when a character is no hex digit or the length is odd.
HexDecodeString(s) ==
  LET n == Len(s) \div 2
      bad(i) == FromHexChar(s[2 * i - 1]) < 0 \/ FromHexChar(s[2 * i]) < 0
      good == IF \E i \in 1..n : bad(i)
              THEN (CHOOSE i \in 1..n : bad(i) /\ \A j \in 1..(i - 1) : ~bad(j)) - 1
              ELSE n
  IN [err |-> good < n \/ Len(s) % 2 = 1,
      val |-> [i \in 1..good |-> 16 * FromHexChar(s[2 * i - 1]) + FromHexChar(s[2 * i])]]

\* hex.EncodeToString: two lowercase hex digits per byte.
HexDigit(n) == IF n < 10 THEN 48 + n ELSE 97 + n - 10
RECURSIVE HexEncodeToString(_)
HexEncodeToString(b) ==
  IF b = <<>> THEN <<>>
  ELSE <<HexDigit(Head(b) \div 16), HexDigit(Head(b) % 16)>> \o HexEncodeToString(Tail(b))

\* A []byte argument: nil, or the bytes.
NilBytes == [nil |-> TRUE, b |-> <<>>]
Bytes(b) == [nil |-> FALSE, b |-> b]
\* Resume commits a caller passes to Watch / WatchPath.
FirstCommits == {NilBytes, Bytes(<<171, 18>>)}
\* Status codes a server answers with.
StatusCodes == {200, 500}

\* A *postRequest argument: nil, or a request with its Data.
NoPost == [nil |-> TRUE, Data |-> [t |-> "none", v |-> <<>>]]
\* Text that is no JSON.
NotJSON == [t |-> "bad", v |-> <<>>]
\* No request issued yet.
NoRequest == [method |-> "", params |-> [t |-> "none", v |-> <<>>]]

\* json.Unmarshal into a Go string: a JSON string gives its bytes, null
\* leaves the empty string, anything else (or no input at all) is an error.
UnmarshalString(j) ==
  IF j.t = "str" THEN [err |-> FALSE, val |-> j.v]
  ELSE IF j.t = "null" THEN [err |-> FALSE, val |-> <<>>]
  ELSE [err |-> TRUE, val |-> <<>>]

\* Value.UnmarshalJSON: a string gives its bytes; otherwise an object is read
\* as {"hex": ...} and its Hex field (empty when missing) is hex-decoded.
UnmarshalValue(j) ==
  LET s == UnmarshalString(j) IN
  IF ~s.err THEN s
  ELSE IF j.t = "obj"
  THEN IF "hex" \in DOMAIN j.v
       THEN LET h == UnmarshalString(j.v.hex) IN
            IF h.err THEN h ELSE HexDecodeString(h.val)
       ELSE HexDecodeString(<<>>)
  ELSE [err |-> TRUE, val |-> <<>>]

----------------------------------------------------------------------------
(* The Value codec on JSON text: Value.MarshalJSON and Value.UnmarshalJSON *)

\* unicode/utf8: the length of the well-formed encoding that starts at
\* b[i], 0 when there is none.
IsCont(c) == c >= 128 /\ c <= 191
RuneLen(b, i) ==
  LET c == b[i]
      has(n) == i + n <= Len(b)
  IN IF c < 128 THEN 1
     ELSE IF c >= 194 /\ c <= 223
     THEN IF has(1) /\ IsCont(b[i + 1]) THEN 2 ELSE 0
     ELSE IF c >= 224 /\ c <= 239
     THEN IF /\ has(2)
             /\ b[i + 1] >= (IF c = 224 THEN 160 ELSE 128)
             /\ b[i + 1] <= (IF c = 237 THEN 159 ELSE 191)
             /\ IsCont(b[i + 2])
          THEN 3 ELSE 0
     ELSE IF c >= 240 /\ c <= 244
     THEN IF /\ has(3)
             /\ b[i + 1] >= (IF c = 240 THEN 144 ELSE 128)
             /\ b[i + 1] <= (IF c = 244 THEN 143 ELSE 191)
             /\ IsCont(b[i + 2]) /\ IsCont(b[i + 3])
          THEN 4 ELSE 0
     ELSE 0

\* utf8.Valid
RECURSIVE Utf8ValidFrom(_, _)
Utf8ValidFrom(b, i) ==
  IF i > Len(b) THEN TRUE
  ELSE IF RuneLen(b, i) = 0 THEN FALSE
  ELSE Utf8ValidFrom(b, i + RuneLen(b, i))
Utf8Valid(b) == Utf8ValidFrom(b, 1)

\* utf8.EncodeRune; U+FFFD for a surrogate.
RuneError == <<239, 191, 189>>
EncodeRune(r) ==
  IF r < 128 THEN <<r>>
  ELSE IF r < 2048 THEN <<192 + (r \div 64), 128 + (r % 64)>>
  ELSE IF r >= 55296 /\ r <= 57343 THEN RuneError
  ELSE IF r < 65536
  THEN <<224 + (r \div 4096), 128 + ((r \div 64) % 64), 128 + (r % 64)>>
  ELSE <<240 + (r \div 262144), 128 + ((r \div 4096) % 64),
         128 + ((r \div 64) % 64), 128 + (r % 64)>>

\* Value.MarshalJSON: fmt.Sprintf("\"%s\"", *i) for valid UTF-8, the bytes
\* between two quotes as they are; else fmt.Sprintf("{ \"hex\" : \"%x\" }", *i).
HexObjectText(h) ==
  <<123, 32, 34, 104, 101, 120, 34, 32, 58, 32, 34>> \o h \o <<34, 32, 125>>
MarshalJSONString(v) == <<34>> \o v \o <<34>>
MarshalJSON(v) ==
  IF Utf8Valid(v) THEN <<34>> \o v \o <<34>>
  ELSE HexObjectText(HexEncodeToString(v))

\* encoding/json on text. White space between tokens.
IsSpace(c) == c \in {32, 9, 10, 13}
RECURSIVE SkipSpace(_, _)
SkipSpace(t, i) == IF i <= Len(t) /\ IsSpace(t[i]) THEN SkipSpace(t, i + 1) ELSE i

\* The four hex digits of a \u escape at t[i..i+3]: the rune, -1 when they
\* are not all there.
Hex4(t, i) ==
  IF i + 3 <= Len(t) /\ \A k \in 0..3 : FromHexChar(t[i + k]) >= 0
  THEN (4096 * FromHexChar(t[i])) + (256 * FromHexChar(t[i + 1]))
       + (16 * FromHexChar(t[i + 2])) + FromHexChar(t[i + 3])
  ELSE -1

\* The byte a one-letter escape stands for, -1 when the letter is none.
EscapeOf(c) ==
  IF c \in {34, 92, 47} THEN c
  ELSE IF c = 98 THEN 8
  ELSE IF c = 102 THEN 12
  ELSE IF c = 110 THEN 10
  ELSE IF c = 114 THEN 13
  ELSE IF c = 116 THEN 9
  ELSE -1

NoString == [ok |-> FALSE, val |-> <<>>, next |-> 0]

\* A JSON string literal from behind its opening quote at t[i - 1]: the
\* scanner's rules (no raw control character, known escapes only, a closing
\* quote) and unquote's result: escapes replaced, a \u pair of surrogates
\* joined, a lone one and ill-formed UTF-8 turned into U+FFFD. next is the
\* index behind the closing quote.
RECURSIVE ScanString(_, _, _)
ScanString(t, i, acc) ==
  IF i > Len(t) THEN NoString
  ELSE LET c == t[i] IN
    IF c = 34 THEN [ok |-> TRUE, val |-> acc, next |-> i + 1]
    ELSE IF c < 32 THEN NoString
    ELSE IF c = 92
    THEN IF i + 1 > Len(t) THEN NoString
         ELSE IF t[i + 1] = 117
         THEN LET r == Hex4(t, i + 2)
                  lo == IF i + 7 <= Len(t) /\ t[i + 6] = 92 /\ t[i + 7] = 117
                        THEN Hex4(t, i + 8) ELSE -1
              IN IF r < 0 THEN NoString
                 ELSE IF r >= 55296 /\ r <= 56319 /\ lo >= 56320 /\ lo <= 57343
                 THEN ScanString(t, i + 12,
                        acc \o EncodeRune(65536 + ((r - 55296) * 1024) + (lo - 56320)))
                 ELSE ScanString(t, i + 6, acc \o EncodeRune(r))
         ELSE IF EscapeOf(t[i + 1]) < 0 THEN NoString
         ELSE ScanString(t, i + 2, Append(acc, EscapeOf(t[i + 1])))
    ELSE IF RuneLen(t, i) = 0 THEN ScanString(t, i + 1, acc \o RuneError)
    ELSE ScanString(t, i + RuneLen(t, i), acc \o SubSeq(t, i, i + RuneLen(t, i) - 1))

\* The string literal that starts at t[i], if one does.
StringAt(t, i) ==
  IF i <= Len(t) /\ t[i] = 34 THEN ScanString(t, i + 1, <<>>) ELSE NoString

\* json.Unmarshal(b, &s) for var s string, on text: the text must be one
\* string literal; any other text, well-formed or not, is an error.
UnmarshalTextString(t) ==
  LET r == StringAt(t, SkipSpace(t, 1)) IN
  IF r.ok /\ SkipSpace(t, r.next) > Len(t)
  THEN [err |-> FALSE, val |-> r.val]
  ELSE [err |-> TRUE, val |-> <<>>]

\* ASCII lower case, for the field match of encoding/json (which ignores case).
Lower(str) == [k \in 1..Len(str) |-> IF str[k] >= 65 /\ str[k] <= 90 THEN str[k] + 32 ELSE str[k]]

\* json.Unmarshal(b, &h) for var h IrminHex, on text, for the objects that
\* carry at most one member with a string value: {} and {"key":"value"};
\* Hex is the value when the key is hex in any case, else stays empty. Other
\* text is taken as an error.
UnmarshalTextHex(t) ==
  LET bad == [err |-> TRUE, Hex |-> <<>>]
      i1 == SkipSpace(t, 1)
      i2 == SkipSpace(t, i1 + 1)
      key == StringAt(t, i2)
      i3 == SkipSpace(t, key.next)
      i4 == SkipSpace(t, i3 + 1)
      val == StringAt(t, i4)
      i5 == SkipSpace(t, val.next)
  IN IF ~(i1 <= Len(t) /\ t[i1] = 123) THEN bad
     ELSE IF i2 <= Len(t) /\ t[i2] = 125
     THEN IF SkipSpace(t, i2 + 1) > Len(t) THEN [err |-> FALSE, Hex |-> <<>>] ELSE bad
     ELSE IF ~key.ok THEN bad
     ELSE IF ~(i3 <= Len(t) /\ t[i3] = 58) THEN bad
     ELSE IF ~val.ok THEN bad
     ELSE IF ~(i5 <= Len(t) /\ t[i5] = 125 /\ SkipSpace(t, i5 + 1) > Len(t)) THEN bad
     ELSE [err |-> FALSE,
           Hex |-> IF Lower(key.val) = <<104, 101, 120>> THEN val.val ELSE <<>>]

\* Value.UnmarshalJSON on text: the text as a string, which must be valid
\* UTF-8; failing that, the text as { "hex" : ... }, hex-decoded.
UnmarshalJSON(t) ==
  LET str == UnmarshalTextString(t) IN
  IF ~str.err
  THEN IF Utf8Valid(str.val) THEN str ELSE [err |-> TRUE, val |-> <<>>]
  ELSE LET h == UnmarshalTextHex(t) IN
       IF h.err THEN [err |-> TRUE, val |-> <<>>] ELSE HexDecodeString(h.Hex)

\* The bytes the Values of the model are made of: " \ and line feed, the
\* letters a b n, the two bytes of U+00E9, and 0xff, which no UTF-8 has.
ValueBytes == {34, 92, 10, 97, 98, 110, 195, 169, 255}
RECURSIVE SeqsUpTo(_, _)
SeqsUpTo(S, n) ==
  IF n = 0 THEN {<<>>}
  ELSE LET shorter == SeqsUpTo(S, n - 1)
       IN shorter \cup {Append(q, c) : q \in shorter, c \in S}
Values == SeqsUpTo(ValueBytes, MaxValueLen)
NoValue == [err |-> FALSE, val |-> <<>>]
\* The bytes the segments of the model are made of: space % + / and a.
PathBytes == {32, 37, 43, 47, 97}
Segments == SeqsUpTo(PathBytes, MaxSegLen) \ {<<>>}
\* The Paths put through: up to MaxPathLen segments, none of them empty.
Paths == SeqsUpTo(Segments, MaxPathLen)
NoURL == [panic |-> FALSE, str |-> <<>>]
\* Texts that name the root: nothing, /, //, a space, and " / ".
RootTexts == {<<>>, <<47>>, <<47, 47>>, <<32>>, <<32, 47, 32>>}
NoParse == [done |-> FALSE]
\* The Views CreateView hands out: head and node from the two halves of the
\* server's result, and the path given.
CreatedViews == {[head |-> StrAB12, node |-> StrCD, path |-> <<StrA>>],
                 [head |-> StrCD, node |-> StrAB12, path |-> <<>>]}
NoView == [head |-> <<>>, node |-> <<>>, path |-> <<>>]
NoPath == [err |-> FALSE, val |-> <<>>]

\* A text json.Marshal takes for a json.RawMessage: well-formed JSON, as far
\* as the texts MarshalJSON writes go (a string literal or a one-member
\* object).
JSONValid(t) == ~UnmarshalTextString(t).err \/ ~UnmarshalTextHex(t).err
\* The watched key is not there.
NoKey == [has |-> FALSE, val |-> <<>>]
\* No ReadString and no Head call made yet.
NoRead == [done |-> FALSE]
NoHead == [done |-> FALSE]
\* The Values the caller updates the watched key with: foo, a\b, a"b and
\* the byte 0xff.
UpdateValues == {StrFoo, <<97, 92, 98>>, <<97, 34, 98>>, <<255>>}

----------------------------------------------------------------------------
(* Decoding one array element *)

\* dec.Decode into a struct with one Value field named `field` (streamToken,
\* version): the field is overwritten when present, kept when missing; null
\* changes nothing; a non-object or an undecodable field value is an error.
DecodeValueField(j, field, old) ==
  IF j.t = "obj"
  THEN IF field \in DOMAIN j.v
       THEN LET r == UnmarshalValue(j.v[field]) IN
            [err |-> r.err, val |-> IF r.err THEN old ELSE r.val]
       ELSE [err |-> FALSE, val |-> old]
  ELSE IF j.t = "null" THEN [err |-> FALSE, val |-> old]
  ELSE [err |-> TRUE, val |-> old]

\* dec.Decode(&streamToken)
DecodeStreamToken(j, old) == DecodeValueField(j, "stream", old)

\* dec.Decode(&version)
DecodeVersion(j) == DecodeValueField(j, "version", <<>>)

\* dec.Decode(s) for s := new(StreamReply): Error through the Value codec,
\* Result the raw JSON of the "result" field (nil when the field is missing).
DecodeStreamReplyNoResult(j) ==
  IF j.t = "obj"
  THEN LET e == IF "error" \in DOMAIN j.v THEN UnmarshalValue(j.v.error)
                ELSE [err |-> FALSE, val |-> <<>>]
       IN [err |-> e.err, val |-> [Error |-> e.val, Result |-> Absent]]
  ELSE [err |-> j.t # "null", val |-> [Error |-> <<>>, Result |-> Absent]]
DecodeStreamReply(j) ==
  IF j.t = "obj"
  THEN LET e == IF "error" \in DOMAIN j.v THEN UnmarshalValue(j.v.error)
                ELSE [err |-> FALSE, val |-> <<>>]
       IN [err |-> e.err,
           val |-> [Error |-> e.val,
                    Result |-> IF "result" \in DOMAIN j.v THEN j.v.result ELSE Absent]]
  ELSE IF j.t = "null"
  THEN [err |-> FALSE, val |-> [Error |-> <<>>, Result |-> Absent]]
  ELSE [err |-> TRUE, val |-> [Error |-> <<>>, Result |-> Absent]]

\* len(s.Result) == 0
ResultEmptyNever(s) == FALSE
ResultEmpty(s) == s.Result = Absent

\* bytes.Equal(streamToken.Stream, []byte("start")) negated: the handshake's test
NotStart(stream) == stream # StrStart

\* bytes.Equal(streamToken.Stream, []byte("end"))
IsEnd(stream) == stream = StrEnd

----------------------------------------------------------------------------
(* Elements a server can put on the wire *)

Reply(res)       == JObj([error |-> JStr(<<>>), result |-> res])
ReplyErr(e, res) == JObj([error |-> JStr(e), result |-> res])

ElStart   == JObj([stream |-> JStr(StrStart)])     \* {"stream":"start"}
ElEnd     == JObj([stream |-> JStr(StrEnd)])       \* {"stream":"end"}
ElOther   == JObj([stream |-> JStr(StrOther)])     \* {"stream":"no"}
ElVersion == JObj([version |-> JStr(StrV1)])       \* {"version":"v1"}
ElBad     == JNum(5)                               \* 5: no object at all

\* Replies with opaque results, for a bare CallStream.
R1   == Reply(JStr(StrFoo))
R2   == Reply(JStr(StrBar))
RErr == ReplyErr(StrBaz, JStr(StrFoo))             \* error set, result set

\* Single-key watch payloads: lists of [commitHex, value] entries.
Pair(c, v) == JArr(<<JStr(c), v>>)
\* [["Cd","bar"],["ab12",{"hex":"ff"}]]
W0 == JArr(<<Pair(StrCD, JStr(StrBar)), Pair(StrAB12, JObj([hex |-> JStr(StrFF)]))>>)
\* [["ab12","foo"]]
W1 == JArr(<<Pair(StrAB12, JStr(StrFoo))>>)
\* [["Cd","bar"],["zz","foo"],["ab12",{"hex":"ff"}]]: entry 2 is no hex
W2 == JArr(<<Pair(StrCD, JStr(StrBar)), Pair(StrZZ, JStr(StrFoo)),
             Pair(StrAB12, JObj([hex |-> JStr(StrFF)]))>>)
\* [["abc","foo"],["ff","baz"]]: entry 1 has odd length
W3 == JArr(<<Pair(StrABC, JStr(StrFoo)), Pair(StrFF, JStr(StrBaz))>>)
\* [["ab12"],["ab12","foo","bar"],["Cd","baz"],[]]: entries of length 1, 3, 2, 0
W4 == JArr(<<JArr(<<JStr(StrAB12)>>),
             JArr(<<JStr(StrAB12), JStr(StrFoo), JStr(StrBar)>>),
             Pair(StrCD, JStr(StrBaz)), JArr(<<>>)>>)
\* {"hex":"ff"}: not a list of lists
W5 == JObj([hex |-> JStr(StrFF)])

\* {"error":"baz","result":[["ab12","foo"]]}: a reply with its error set
WErr == ReplyErr(StrBaz, W1)

\* Subtree watch payloads: [commitHex, [[changeKind, path], ...]].
PathAB == JArr(<<JStr(StrA), JStr(StrB)>>)                    \* ["a","b"]
PathA  == JArr(<<JStr(StrA)>>)                                \* ["a"]
PathX  == JArr(<<JStr(StrB), JObj([hex |-> JStr(StrFF)])>>)   \* ["b",{"hex":"ff"}]
Change(kind, path) == JArr(<<JStr(kind), path>>)
Commit(c, changes) == JArr(<<JStr(c), JArr(changes)>>)
\* ["ab12",[["+",["a","b"]]]]
P1 == Commit(StrAB12, <<Change(StrPlus, PathAB)>>)
\* ["Cd",[["*",["a"]],["-",["b",{"hex":"ff"}]]]]
P2 == Commit(StrCD, <<Change(StrStar, PathA), Change(StrMinus, PathX)>>)
\* ["zz",[["+",["a"]]]]: the commit is no hex
P3 == Commit(StrZZ, <<Change(StrPlus, PathA)>>)
\* ["ab12",[["+",["a"]],["+"]]]: entry 2 has length 1
P4 == Commit(StrAB12, <<Change(StrPlus, PathA), JArr(<<JStr(StrPlus)>>)>>)
\* ["ab12",["+",["-",["a"]]]]: entry 1 is no array
P5 == Commit(StrAB12, <<JStr(StrPlus), Change(StrMinus, PathA)>>)
\* ["ab12",[[5,["a"]]]]: the change kind is no string
P6 == Commit(StrAB12, <<JArr(<<JNum(5), PathA>>)>>)
\* ["ab12",[["+","/a/b"]]]: the path is a string, not a list of segments
P7 == Commit(StrAB12, <<Change(StrPlus, JStr(StrSlashAB))>>)
\* "foo": not a two-element list
P8 == JStr(StrFoo)

StartElems   == {ElStart, ElOther, ElVersion, ElBad}
VersionElems == {ElVersion, ElBad}
StreamElems(a) ==
  IF a = "stream" THEN {R1, R2, RErr, ElEnd, ElOther, ElBad}
  ELSE IF a = "watch"
  THEN {Reply(W0), Reply(W1), Reply(W2), Reply(W3), Reply(W4), Reply(W5), WErr, ElEnd}
  ELSE {Reply(P1), Reply(P2), Reply(P3), Reply(P4), Reply(P5), Reply(P6),
        Reply(P7), Reply(P8), ElEnd, ElBad}

\* Elements explored after the handshake.
WireLimit == IF api = "stream" THEN MaxWire ELSE MaxWatchWire

\* A server that answers the request with 200 and a well-formed handshake
\* and never ends the body.
Steady == server \in {"endless", "store", "faulty", "long"}
\* Messages a long body has behind its first one: one more than the channel
\* made by CallStream holds.
LongReplies == ChanCap + 1

\* The store behind a single-key watch. An Update call is logged with the
\* Value given (v), whether the store took it (ok) and the Value the store
\* then holds (held): the one the posted JSON text stands for.
Applied == SelectSeq(updates, LAMBDA u : u.ok)
\* The Value JSON encoding: a string, or {"hex": ...} for bytes that are no
\* UTF-8.
ValueJSON(b) ==
  IF Utf8Valid(b) THEN JStr(b) ELSE JObj([hex |-> JStr(HexEncodeToString(b))])
\* The commit made by the k-th change, in hex.
StoreCommit(k) == HexEncodeToString(<<k>>)
StorePair(k) == Pair(StoreCommit(k), ValueJSON(Applied[k].held))
\* Pairs carried by the replies of w (behind the two handshake elements).
RECURSIVE Notified(_)
Notified(w) ==
  IF Len(w) <= 2 THEN 0
  ELSE Len(w[Len(w)].v.result.v) + Notified(SubSeq(w, 1, Len(w) - 1))
\* The watch replies the store can send next: the changes not yet sent, the
\* oldest first, one or several of them in one reply; none when every
\* change has been sent.
StoreTokens(w) ==
  LET n == Notified(w) IN
  {Reply(JArr([i \in 1..(m - n) |-> StorePair(n + i)])) : m \in (n + 1)..Len(Applied)}

\* What the next read of the body can meet, after the elements in w: in a
\* finite body an element (while the bound allows) or a terminator; in an
\* endless one a well-formed handshake and then one more reply, for ever;
\* from the store the handshake and then the replies it has to send.
NextTokens(w) ==
  IF Steady
  THEN IF Len(w) = 0 THEN {ElStart}
       ELSE IF Len(w) = 1 THEN {ElVersion}
       ELSE IF server = "store" THEN StoreTokens(w)
       ELSE IF server \in {"faulty", "long"} /\ Len(w) = 2 THEN {Reply(P4)}
       ELSE IF server = "long" /\ Len(w) >= LongReplies + 3 THEN {TokClose}
       ELSE IF api = "stream" THEN {R1}
       ELSE IF api = "watch" THEN {Reply(W1)}
       ELSE {Reply(P1)}
  ELSE Terms \cup (IF Len(w) = 0 THEN StartElems
                   ELSE IF Len(w) = 1 THEN VersionElems
                   ELSE IF Len(w) < WireLimit + 2 THEN StreamElems(api)
                   ELSE {})

\* The body after reading tok: an element joins the wire (an endless wire
\* keeps only its handshake, a faulty one also its first message), a
\* terminator is remembered.
WireAfter(w, tok) ==
  IF \/ tok \in Terms
     \/ server = "endless" /\ Len(w) >= 2
     \/ server = "faulty" /\ Len(w) >= 3
  THEN w ELSE Append(w, tok)
TermAfter(tm, tok) == IF tok \in Terms THEN tok.t ELSE tm

----------------------------------------------------------------------------
(* Initial state *)

\* Go errors: nil, or a kind with the message it carries.
NoErr == [kind |-> "nil", msg |-> <<>>]
Err(kind, msg) == [kind |-> kind, msg |-> msg]

NoReply == [Error |-> <<>>, Result |-> Absent]
NoItem  == [Commit |-> <<>>]

Init ==
  /\ api \in {"stream", "watch", "watchpath", "codec", "kv", "path", "view"}
  /\ server \in (IF api \in {"codec", "path", "view"} THEN {"finite"}
                 ELSE IF api = "kv" THEN {"store"}
                 ELSE IF api = "watchpath" THEN {"finite", "endless", "faulty", "long"}
                 ELSE IF api = "watch" THEN {"finite", "endless", "store"}
                 ELSE {"finite", "endless"})
  /\ open = [tok |-> "", rest |-> Absent]
  /\ wire = <<>>
  /\ term = ""
  /\ cpc = (IF api \in {"codec", "kv", "path", "view"} THEN "none" ELSE "request")
  /\ cret = [ch |-> FALSE, err |-> NoErr]
  /\ streamToken = <<>>
  /\ wg = 0
  /\ closer = "none"
  /\ bodyClosed = 0
  /\ dpc = "none"
  /\ ds = NoReply
  /\ ch = <<>>
  /\ chClosed = FALSE
  /\ apc = "call"
  /\ aret = [ch |-> FALSE, err |-> NoErr]
  /\ werr = NoErr
  /\ wpc = "none"
  /\ wmsg = <<>>
  /\ widx = 0
  /\ wcur = NoItem
  /\ out = <<>>
  /\ outClosed = FALSE
  /\ msgs = <<>>
  /\ got = <<>>
  /\ abandoned = FALSE
  /\ panicked = FALSE
  /\ firstCommit \in (IF api \in {"watch", "watchpath"} /\ server \notin {"store", "faulty", "long"}
                      THEN FirstCommits ELSE {NilBytes})
  /\ request = NoRequest
  /\ status = 0
  /\ value \in (IF api = "codec" THEN Values ELSE {<<>>})
  /\ text = <<>>
  /\ back = NoValue
  /\ vpc = (IF api = "codec" THEN "marshal" ELSE "none")
  /\ updates = <<>>
  /\ store \in (IF server = "store" THEN {NoKey, [has |-> TRUE, val |-> StrFoo]}
                ELSE {NoKey})
  /\ rd = NoRead
  /\ hd = NoHead
  /\ purl = NoURL
  /\ pback = NoPath
  /\ proot = NoParse
  /\ IF api = "path"
     THEN \/ ppc = "url" /\ ppath \in Paths /\ ptext = <<>>
          \/ ppc = "text" /\ ppath = <<>> /\ ptext \in RootTexts
     ELSE ppc = "none" /\ ppath = <<>> /\ ptext = <<>>
  /\ view \in (IF api = "view" THEN CreatedViews ELSE {NoView})
  /\ vcalls = <<>>

----------------------------------------------------------------------------
(* Client.CallStream: request and handshake, on the caller's goroutine *)

\* A return of CallStream: the deferred wg.Done() runs on every path that
\* follows wg.Add(1).
CallStreamReturns(hasCh, e) ==
  /\ cpc' = "done"
  /\ cret' = [ch |-> hasCh, err |-> e]
  /\ wg' = wg - 1

\* body.Data as Watch builds it: fmt.Sprintf("[\"%s\", \"%s\"]", s, "hei")
\* for s := hex.EncodeToString(firstCommit); nil when there is no commit.
WatchBody(c) ==
  IF c.nil THEN NoPost
  ELSE [nil |-> FALSE, Data |-> JArr(<<JStr(HexEncodeToString(c.b)), JStr(StrHei)>>)]

\* body.Data as WatchPath builds it: fmt.Sprintf("[\"%s\"]", s, s) has one
\* verb for two arguments, so the text is ["<hex>"]%!(EXTRA string=<hex>),
\* which is no JSON.
WatchPathBody(c) ==
  IF c.nil THEN NoPost ELSE [nil |-> FALSE, Data |-> NotJSON]

\* The post argument CallStream is called with: Watch passes its body,
\* WatchPath passes nil whatever body it built.
WatchPathPost == NoPost
Post ==
  IF api = "watch" THEN WatchBody(firstCommit)
  ELSE IF api = "watchpath" THEN WatchPathPost
  ELSE NoPost

\* Whether CallStream goes on to read the body for a response of this
\* status: res.StatusCode is never looked at.
StatusAccepted(st) == TRUE

\* http.Get / http.Post; on success wg.Add(1), defer wg.Done() and the
\* goroutine that waits for the group and closes the body. With a body to
\* post, `j, err := json.Marshal(post)` declares a second err: the error of
\* http.Post goes to that one, `if err != nil` sees nil, and res.Body is
\* reached with res nil.
CallStreamRequest ==
  /\ cpc = "request" /\ ~panicked
  /\ request' = IF Post.nil THEN [method |-> "GET", params |-> Absent]
                ELSE [method |-> "POST", params |-> Post.Data]
  /\ \E ok \in (IF Steady THEN {TRUE} ELSE BOOLEAN) :
       IF ok
       THEN \E st \in (IF Steady THEN {200} ELSE StatusCodes) :
            /\ status' = st
            /\ IF StatusAccepted(st)
               THEN /\ cpc' = "token"
                    /\ wg' = 1
                    /\ closer' = "waiting"
                    /\ cret' = cret
               ELSE /\ cpc' = "done"
                    /\ cret' = [ch |-> FALSE, err |-> Err("status", <<st>>)]
                    /\ UNCHANGED <<wg, closer>>
            /\ UNCHANGED panicked
       ELSE /\ status' = 0
            /\ IF Post.nil
               THEN /\ cpc' = "done"
                    /\ cret' = [ch |-> FALSE, err |-> Err("transport", <<>>)]
                    /\ UNCHANGED panicked
               ELSE /\ panicked' = TRUE
                    /\ UNCHANGED <<cpc, cret>>
            /\ UNCHANGED <<wg, closer>>
  /\ UNCHANGED <<codecVars, storeVars, pathVars, viewVars, api, server, open, wire, term, firstCommit, streamToken,
                 bodyClosed, decVars, apiVars, watchVars, got, abandoned>>

\* Bodies by their first token: an array, a JSON object (whole, or one that
\* does not parse), a literal, or nothing at all.
FirstBodies ==
  IF Steady THEN {[tok |-> "[", rest |-> Absent]}
  ELSE {[tok |-> "[", rest |-> Absent],
        [tok |-> "{", rest |-> JObj([error |-> JStr(StrBaz), version |-> JStr(StrV1)])],
        [tok |-> "{", rest |-> ElVersion],
        [tok |-> "{", rest |-> JObj([error |-> JNum(5)])],
        [tok |-> "{", rest |-> Absent],
        [tok |-> "lit", rest |-> Absent],
        [tok |-> "eof", rest |-> Absent]}

\* An unmarshal that finds no error field in anything.
UnmarshalErrorVersionNoField(j) == [err |-> FALSE, hasError |-> FALSE, Error |-> <<>>]
\* json.Unmarshal(all, &errormsg) for an ErrorVersion: both fields go
\* through the Value codec; Error stays nil when the field is missing.
UnmarshalErrorVersion(j) ==
  IF j.t = "obj"
  THEN LET e == IF "error" \in DOMAIN j.v THEN UnmarshalValue(j.v.error)
                ELSE [err |-> FALSE, val |-> <<>>]
           v == IF "version" \in DOMAIN j.v THEN UnmarshalValue(j.v.version)
                ELSE [err |-> FALSE, val |-> <<>>]
       IN [err |-> e.err \/ v.err, hasError |-> "error" \in DOMAIN j.v /\ ~e.err,
           Error |-> e.val]
  ELSE [err |-> j.t # "null", hasError |-> FALSE, Error |-> <<>>]

\* The error CallStream returns when the first token is not [.
OpenErrorNil(b) == NoErr
OpenError(b) ==
  IF b.tok = "{"
  THEN LET m == UnmarshalErrorVersion(b.rest) IN
       IF ~m.err /\ m.hasError THEN Err("Server returned an error: ", m.Error)
       ELSE Err("expected [, got {", <<>>)
  ELSE IF b.tok = "lit" THEN Err("expected delimiter", <<>>)
  ELSE Err("token", <<>>)

\* dec.Token() and the switch on it.
CallStreamToken ==
  /\ cpc = "token" /\ ~panicked
  /\ \E b \in FirstBodies :
       /\ open' = b
       /\ IF b.tok = "[" THEN cpc' = "start" /\ UNCHANGED <<cret, wg>>
          ELSE CallStreamReturns(FALSE, OpenError(b))
  /\ UNCHANGED <<codecVars, storeVars, pathVars, viewVars, api, server, wire, term, firstCommit, request, status,
                 streamToken, closer, bodyClosed,
                 decVars, apiVars, watchVars, userVars>>

\* The value CallStream returns when the first element is refused:
\* `return nil, err` with the err of dec.Decode.
StartRefused(decodeErr) == IF decodeErr THEN Err("decode", <<>>) ELSE NoErr

\* dec.Decode(&streamToken) and the test for stream start.
CallStreamStart ==
  /\ cpc = "start" /\ ~panicked
  /\ \E tok \in NextTokens(wire) :
       LET r == DecodeStreamToken(tok, streamToken) IN
       /\ wire' = WireAfter(wire, tok)
       /\ term' = TermAfter(term, tok)
       /\ streamToken' = r.val
       /\ IF r.err \/ NotStart(r.val)
          THEN CallStreamReturns(FALSE, StartRefused(r.err))
          ELSE cpc' = "version" /\ UNCHANGED <<cret, wg>>
  /\ UNCHANGED <<codecVars, storeVars, pathVars, viewVars, api, server, open, firstCommit, request, status, closer,
                 bodyClosed, decVars, apiVars,
                 watchVars, userVars>>

\* dec.Decode(&version)
CallStreamVersion ==
  /\ cpc = "version" /\ ~panicked
  /\ \E tok \in NextTokens(wire) :
       /\ wire' = WireAfter(wire, tok)
       /\ term' = TermAfter(term, tok)
       /\ IF DecodeVersion(tok).err
          THEN CallStreamReturns(FALSE, Err("decode", <<>>))
          ELSE cpc' = "spawn" /\ UNCHANGED <<cret, wg>>
  /\ UNCHANGED <<codecVars, storeVars, pathVars, viewVars, api, server, open, firstCommit, request, status,
                 streamToken, closer, bodyClosed, decVars,
                 apiVars, watchVars, userVars>>

\* The group's count after wg.Add(1) for the decode goroutine, before `go`.
WaitGroupUntouched(n) == n
WaitGroupAdd(n) == n + 1

\* ch := make(chan *StreamReply, 100); wg.Add(1); go func() { ... }()
CallStreamSpawn ==
  /\ cpc = "spawn" /\ ~panicked
  /\ cpc' = "return"
  /\ wg' = WaitGroupAdd(wg)
  /\ dpc' = "read"
  /\ UNCHANGED <<connVars, cret, streamToken, closer, bodyClosed, ds, ch, chClosed,
                 apiVars, watchVars, userVars>>

\* return ch, nil
CallStreamReturn ==
  /\ cpc = "return" /\ ~panicked
  /\ CallStreamReturns(TRUE, NoErr)
  /\ UNCHANGED <<connVars, streamToken, closer, bodyClosed, decVars, apiVars,
                 watchVars, userVars>>

\* go func() { wg.Wait(); res.Body.Close() }()
CloserRun ==
  /\ closer = "waiting" /\ ~panicked
  /\ wg = 0
  /\ closer' = "done"
  /\ bodyClosed' = bodyClosed + 1
  /\ UNCHANGED <<connVars, callVars, wg, decVars, apiVars, watchVars, userVars>>

----------------------------------------------------------------------------
(* Client.CallStream: the decode goroutine *)

\* The deferred close(ch); wg.Done() of the decode goroutine.
DecoderExits ==
  /\ dpc' = "done"
  /\ chClosed' = TRUE
  /\ wg' = wg - 1
  /\ UNCHANGED <<ds, ch>>

\* After an element with an empty result: dec.Decode(&streamToken) reads the
\* element that follows it, and the goroutine returns on an error or on "end".
DecodeAfterEmpty(s, w, tm) ==
  \E tok \in NextTokens(w) :
    LET k == DecodeStreamToken(tok, streamToken) IN
    /\ wire' = WireAfter(w, tok)
    /\ term' = TermAfter(tm, tok)
    /\ streamToken' = k.val
    /\ IF k.err \/ IsEnd(k.val)
       THEN DecoderExits
       ELSE dpc' = "send" /\ ds' = s /\ UNCHANGED <<ch, chClosed, wg>>

\* One turn of `for dec.More() { ... }` up to the send: More is false at ]
\* and at the end of the body (and on a closed body); Decode(s) fails on an
\* element that is no reply.
DecodeNext ==
  /\ dpc = "read" /\ ~panicked
  /\ \E tok \in NextTokens(wire) :
       IF tok \in Terms \/ bodyClosed > 0
       THEN /\ DecoderExits
            /\ wire' = wire
            /\ term' = IF bodyClosed > 0 THEN term ELSE TermAfter(term, tok)
            /\ streamToken' = streamToken
       ELSE LET r == DecodeStreamReply(tok) IN
            IF r.err
            THEN /\ DecoderExits
                 /\ wire' = WireAfter(wire, tok)
                 /\ UNCHANGED <<term, streamToken>>
            ELSE IF ResultEmpty(r.val)
            THEN DecodeAfterEmpty(r.val, WireAfter(wire, tok), term)
            ELSE /\ dpc' = "send"
                 /\ ds' = r.val
                 /\ wire' = WireAfter(wire, tok)
                 /\ UNCHANGED <<term, streamToken, ch, chClosed, wg>>
  /\ UNCHANGED <<codecVars, storeVars, pathVars, viewVars, api, server, open, firstCommit, request, status, cpc, cret,
                 closer, bodyClosed, apiVars,
                 watchVars, userVars>>

\* A send that gives up on a full buffer instead of waiting for room.
DecodeSendDropping ==
  /\ dpc = "send" /\ ~panicked
  /\ ch' = IF Len(ch) < ChanCap THEN Append(ch, ds) ELSE ch
  /\ dpc' = "read"
  /\ UNCHANGED <<connVars, callVars, closeVars, ds, chClosed, apiVars, watchVars,
                 userVars>>

\* ch <- s: blocks while the buffer is full.
DecodeSend ==
  /\ dpc = "send" /\ ~panicked
  /\ Len(ch) < ChanCap
  /\ ch' = Append(ch, ds)
  /\ dpc' = "read"
  /\ UNCHANGED <<connVars, callVars, closeVars, ds, chClosed, apiVars, watchVars,
                 userVars>>

----------------------------------------------------------------------------
(* The caller of CallStream receiving from the channel it was given *)

\* v := <-ch on the channel CallStream returned.
StreamConsumerRecv ==
  /\ api = "stream" /\ ~panicked /\ ~abandoned
  /\ cpc = "done" /\ cret.ch
  /\ ch # <<>>
  /\ server = "endless" => Len(got) < MaxGot
  /\ got' = Append(got, Head(ch))
  /\ ch' = Tail(ch)
  /\ UNCHANGED <<connVars, callVars, closeVars, dpc, ds, chClosed, apiVars,
                 watchVars, abandoned, panicked>>

CallStreamSteps ==
  \/ CallStreamRequest
  \/ CallStreamToken
  \/ CallStreamStart
  \/ CallStreamVersion
  \/ CallStreamSpawn
  \/ CallStreamReturn
  \/ CloserRun
  \/ DecodeNext
  \/ DecodeSend

----------------------------------------------------------------------------
(* Conn.Watch: the single-key watch *)

\* json.Unmarshal into []Value (also the type under Path): a list of values
\* each through the Value codec; null gives the nil slice.
UnmarshalValueList(j) ==
  IF j.t = "arr"
  THEN [err |-> \E i \in 1..Len(j.v) : UnmarshalValue(j.v[i]).err,
        val |-> [i \in 1..Len(j.v) |-> UnmarshalValue(j.v[i]).val]]
  ELSE [err |-> j.t # "null", val |-> <<>>]

\* json.Unmarshal(m.Result, p) for p := new([][]Value)
UnmarshalPairs(j) ==
  IF j.t = "arr"
  THEN [err |-> \E i \in 1..Len(j.v) : UnmarshalValueList(j.v[i]).err,
        val |-> [i \in 1..Len(j.v) |-> UnmarshalValueList(j.v[i]).val]]
  ELSE [err |-> j.t # "null", val |-> <<>>]

\* The call of CallStream by Watch, its check of what came back, and
\* out := make(chan *CommitValuePair, 1); go func() { ... }()
WatchOpen ==
  /\ api = "watch" /\ apc = "call" /\ cpc = "done" /\ ~panicked
  /\ IF cret.err # NoErr \/ ~cret.ch
     THEN /\ apc' = "done"
          /\ aret' = [ch |-> FALSE, err |-> cret.err]
          /\ UNCHANGED <<werr, wpc>>
     ELSE /\ apc' = "return"
          /\ werr' = cret.err
          /\ wpc' = "recv"
          /\ aret' = aret
  /\ UNCHANGED <<connVars, callVars, closeVars, decVars, wmsg, widx, wcur, out,
                 outClosed, msgs, userVars>>

\* return out, err: err is the variable the goroutine assigns as well.
WatchReturn ==
  /\ api = "watch" /\ apc = "return" /\ ~panicked
  /\ apc' = "done"
  /\ aret' = [ch |-> TRUE, err |-> werr]
  /\ UNCHANGED <<connVars, callVars, closeVars, decVars, werr, watchVars, userVars>>

\* Where the goroutine stands after entry number i - 1 of the message: at
\* the next entry while `for _, q := range *p` has one, else at the next
\* message.
WatchAfterEntryBreaks(list, i) == "recv"
WatchAfterEntry(list, i) == IF i > Len(list) THEN "recv" ELSE "item"

\* for m := range ch, and json.Unmarshal(m.Result, p) with its panic; the
\* deferred close(out) when ch is closed and drained.
WatchRecv ==
  /\ api = "watch" /\ wpc = "recv" /\ ~panicked
  /\ IF ch # <<>>
     THEN LET p == UnmarshalPairs(Head(ch).Result) IN
          /\ ch' = Tail(ch)
          /\ msgs' = Append(msgs, Head(ch))
          /\ panicked' = p.err
          /\ wmsg' = p.val
          /\ widx' = 1
          /\ wpc' = WatchAfterEntry(p.val, 1)
          /\ UNCHANGED outClosed
     ELSE /\ chClosed
          /\ outClosed' = TRUE
          /\ wpc' = "done"
          /\ UNCHANGED <<ch, msgs, panicked, wmsg, widx>>
  /\ UNCHANGED <<connVars, callVars, closeVars, dpc, ds, chClosed, apiVars, wcur,
                 out, got, abandoned>>

\* A test that lets through every entry with at least two elements.
EntrySkippedWhenShort(q) == Len(q) < 2
\* Whether an entry of the message is taken up: len(q) != 2 skips it.
EntrySkipped(q) == Len(q) # 2

\* Whether a commit that failed to decode drops its entry (`continue`).
CommitRefusedNever(h) == FALSE
CommitRefused(h) == h.err

\* c := new(CommitValuePair) filled from the entry q and its decoded commit.
MakePairFromCommit(h, q) == [Commit |-> h.val, Value |-> q[1]]
MakePair(h, q) == [Commit |-> h.val, Value |-> q[2]]

\* One entry q of `for _, q := range *p`, up to the send.
WatchItem ==
  /\ api = "watch" /\ wpc = "item" /\ ~panicked
  /\ LET q == wmsg[widx] IN
     /\ widx' = widx + 1
     /\ IF EntrySkipped(q)
        THEN /\ wpc' = WatchAfterEntry(wmsg, widx + 1)
             /\ UNCHANGED <<werr, wcur>>
        ELSE LET h == HexDecodeString(q[1]) IN
             /\ werr' = IF h.err THEN Err("hex", q[1]) ELSE NoErr
             /\ IF CommitRefused(h)
                THEN wpc' = WatchAfterEntry(wmsg, widx + 1) /\ wcur' = wcur
                ELSE wpc' = "send" /\ wcur' = MakePair(h, q)
  /\ UNCHANGED <<connVars, callVars, closeVars, decVars, apc, aret, wmsg, out,
                 outClosed, msgs, userVars>>

\* out <- c: blocks while the buffer is full.
WatchSend ==
  /\ api = "watch" /\ wpc = "send" /\ ~panicked
  /\ Len(out) < OutCap
  /\ out' = Append(out, wcur)
  /\ wpc' = WatchAfterEntry(wmsg, widx)
  /\ UNCHANGED <<connVars, callVars, closeVars, decVars, apiVars, wmsg, widx, wcur,
                 outClosed, msgs, userVars>>

----------------------------------------------------------------------------
(* Conn.WatchPath: the subtree watch *)

\* json.Unmarshal into []json.RawMessage
UnmarshalRawList(j) ==
  IF j.t = "arr" THEN [err |-> FALSE, val |-> j.v]
  ELSE [err |-> j.t # "null", val |-> <<>>]

\* json.Unmarshal into [2]json.RawMessage: missing elements stay nil, extra
\* ones are dropped.
UnmarshalRawPair(j) ==
  LET l == UnmarshalRawList(j) IN
  [err |-> l.err,
   val |-> [i \in 1..2 |-> IF i <= Len(l.val) THEN l.val[i] ELSE Absent]]

ZeroChange == [Change |-> <<>>, Key |-> <<>>]

\* strings.Trim(p, " /"): leading and trailing spaces and slashes go.
RECURSIVE TrimLeft(_)
TrimLeft(p) == IF p # <<>> /\ Head(p) \in {32, 47} THEN TrimLeft(Tail(p)) ELSE p
RECURSIVE TrimRight(_)
TrimRight(p) ==
  IF p # <<>> /\ p[Len(p)] \in {32, 47} THEN TrimRight(SubSeq(p, 1, Len(p) - 1)) ELSE p
Trim(p) == TrimRight(TrimLeft(p))

\* strings.Split(s, "/"): the pieces between the slashes, one (empty) piece
\* for the empty string.
RECURSIVE Split(_)
Split(s) ==
  IF \E i \in 1..Len(s) : s[i] = 47
  THEN LET i == CHOOSE i \in 1..Len(s) : s[i] = 47 /\ \A j \in 1..(i - 1) : s[j] # 47
       IN <<SubSeq(s, 1, i - 1)>> \o Split(SubSeq(s, i + 1, Len(s)))
  ELSE <<s>>

\* ParsePath: a path string to its segments.
ParsePath(p) == Split(Trim(p))

\* json.Unmarshal(k[1], &key) for var key Path: Path is a []Value with no
\* decoder of its own, so only a JSON list (or null) is taken; the other
\* reading would take a slash-delimited string through ParsePath as well.
UnmarshalPathOrString(j) ==
  IF j.t = "str" THEN [err |-> FALSE, val |-> ParsePath(j.v)]
  ELSE IF j.t = "arr"
  THEN [err |-> \E i \in 1..Len(j.v) : UnmarshalValue(j.v[i]).err,
        val |-> [i \in 1..Len(j.v) |-> UnmarshalValue(j.v[i]).val]]
  ELSE [err |-> j.t # "null", val |-> <<>>]
UnmarshalPath(j) == UnmarshalValueList(j)

\* c.Changes[x].Change = changetype; c.Changes[x].Key = key
MakeChangeNoKey(changetype, key) == [Change |-> changetype, Key |-> <<>>]
MakeChange(changetype, key) == [Change |-> changetype, Key |-> key]

\* One [changeKind, path] entry: the list of two, the kind as a string, the
\* path as a Path; the first failure is the entry's error.
DecodeChange(pair) ==
  LET k == UnmarshalRawList(pair) IN
  IF k.err THEN [err |-> Err("json3", <<>>), val |-> ZeroChange]
  ELSE IF Len(k.val) # 2 THEN [err |-> Err("len", <<Len(k.val)>>), val |-> ZeroChange]
  ELSE LET c == UnmarshalString(k.val[1])
           key == UnmarshalPath(k.val[2])
       IN IF c.err THEN [err |-> Err("json4", <<>>), val |-> ZeroChange]
          ELSE IF key.err THEN [err |-> Err("json5", <<>>), val |-> ZeroChange]
          ELSE [err |-> NoErr, val |-> MakeChange(c.val, key.val)]

\* What the goroutine does on a commit that is no hex: `continue`, which
\* drops the message, or an error record.
BadCommitFatal == FALSE
BadCommitIgnored == TRUE

\* The body of `for m := range ch` up to its send, continue or return:
\* "skip" when the message is dropped, else the record to send, whose
\* Error says whether the goroutine returns after sending it.
DecodeWatchPathCommit(res) ==
  LET ErrRec(e) == [kind |-> "item",
                    rec |-> [Commit |-> <<>>, Changes |-> <<>>, Error |-> e]]
      q == UnmarshalRawPair(res)
      s == UnmarshalString(q.val[1])
      h == HexDecodeString(s.val)
      changes == UnmarshalRawList(q.val[2])
      n == Len(changes.val)
      bad(x) == DecodeChange(changes.val[x]).err # NoErr
      first == IF \E x \in 1..n : bad(x)
               THEN CHOOSE x \in 1..n : bad(x) /\ \A y \in 1..(x - 1) : ~bad(y)
               ELSE n + 1
  IN IF q.err THEN ErrRec(Err("json0", <<>>))
     ELSE IF s.err THEN ErrRec(Err("json1", <<>>))
     ELSE IF h.err
     THEN IF BadCommitIgnored THEN [kind |-> "skip", rec |-> NoItem]
          ELSE ErrRec(Err("hex", s.val))
     ELSE IF changes.err THEN ErrRec(Err("json2", <<>>))
     ELSE [kind |-> "item",
           rec |-> [Commit |-> h.val,
                    Changes |-> [x \in 1..n |-> IF x < first
                                                THEN DecodeChange(changes.val[x]).val
                                                ELSE ZeroChange],
                    Error |-> IF first <= n THEN DecodeChange(changes.val[first]).err
                              ELSE NoErr]]

\* The call of CallStream by WatchPath, its check of what came back, and
\* out := make(chan *WatchPathCommit, 1); go func() { ... }()
WatchPathOpen ==
  /\ api = "watchpath" /\ apc = "call" /\ cpc = "done" /\ ~panicked
  /\ IF cret.err # NoErr \/ ~cret.ch
     THEN /\ apc' = "done"
          /\ aret' = [ch |-> FALSE, err |-> cret.err]
          /\ wpc' = wpc
     ELSE /\ apc' = "return"
          /\ wpc' = "recv"
          /\ aret' = aret
  /\ UNCHANGED <<connVars, callVars, closeVars, decVars, werr, wmsg, widx, wcur,
                 out, outClosed, msgs, userVars>>

\* return out, err: here the goroutine has err variables of its own.
WatchPathReturn ==
  /\ api = "watchpath" /\ apc = "return" /\ ~panicked
  /\ apc' = "done"
  /\ aret' = [ch |-> TRUE, err |-> cret.err]
  /\ UNCHANGED <<connVars, callVars, closeVars, decVars, werr, watchVars, userVars>>

\* for m := range ch and the decoding of m.Result; the deferred close(out)
\* when ch is closed and drained.
WatchPathRecv ==
  /\ api = "watchpath" /\ wpc = "recv" /\ ~panicked
  /\ IF ch # <<>>
     THEN LET r == DecodeWatchPathCommit(Head(ch).Result) IN
          /\ ch' = Tail(ch)
          /\ msgs' = Append(msgs, Head(ch))
          /\ wpc' = IF r.kind = "skip" THEN "recv" ELSE "send"
          /\ wcur' = IF r.kind = "skip" THEN wcur ELSE r.rec
          /\ UNCHANGED outClosed
     ELSE /\ chClosed
          /\ outClosed' = TRUE
          /\ wpc' = "done"
          /\ UNCHANGED <<ch, msgs, wcur>>
  /\ UNCHANGED <<connVars, callVars, closeVars, dpc, ds, chClosed, apiVars, wmsg,
                 widx, out, userVars>>

\* Whether the goroutine returns after sending c: it does when c.Error is set.
ReturnsAfterNever(c) == FALSE
ReturnsAfter(c) == c.Error # NoErr

\* out <- c, and for a record with Error set the return that follows it,
\* with its deferred close(out).
WatchPathSend ==
  /\ api = "watchpath" /\ wpc = "send" /\ ~panicked
  /\ Len(out) < OutCap
  /\ out' = Append(out, wcur)
  /\ wpc' = IF ReturnsAfter(wcur) THEN "done" ELSE "recv"
  /\ outClosed' = ReturnsAfter(wcur)
  /\ UNCHANGED <<connVars, callVars, closeVars, decVars, apiVars, wmsg, widx, wcur,
                 msgs, userVars>>

----------------------------------------------------------------------------
(* The caller of Watch / WatchPath receiving from the channel it was given *)

\* v := <-out on the channel Watch or WatchPath returned.
WatchConsumerRecv ==
  /\ api # "stream" /\ ~panicked /\ ~abandoned
  /\ apc = "done" /\ aret.ch
  /\ out # <<>>
  /\ server = "endless" => Len(got) < MaxGot
  /\ got' = Append(got, Head(out))
  /\ out' = Tail(out)
  /\ UNCHANGED <<connVars, callVars, closeVars, decVars, apiVars, wpc, wmsg, widx,
                 wcur, outClosed, msgs, abandoned, panicked>>

WatchSteps == WatchOpen \/ WatchReturn \/ WatchRecv \/ WatchItem \/ WatchSend

WatchPathSteps == WatchPathOpen \/ WatchPathReturn \/ WatchPathRecv \/ WatchPathSend

\* The consumer walks away from the channel it was given: it never
\* receives again (nothing in the program is told).
ConsumerAbandon ==
  /\ ~abandoned /\ ~panicked
  /\ IF api = "stream" THEN cpc = "done" /\ cret.ch ELSE apc = "done" /\ aret.ch
  /\ abandoned' = TRUE
  /\ UNCHANGED <<connVars, callVars, closeVars, decVars, apiVars, watchVars, got,
                 panicked>>

(* Updates of the watched key while the watch is open *)

\* Conn.Update(task, path, v) through Client.Call: the Value goes out as
\* MarshalJSON wrote it; json.Marshal(post) refuses a body that is no JSON
\* and Call panics; a request that fails leaves res nil behind the shadowed
\* err and Call panics on res.Body; the store answers with an error, or takes
\* the Value its text stands for and answers with the commit hash.
\* Each call is logged with the answer it met: "none" when no request went
\* out, "down" for a request that failed, "error" and "hash" for the store's
\* two answers; hash is what Update returned.
Update ==
  /\ server = "store" /\ ~panicked
  /\ api = "kv" \/ (api = "watch" /\ apc = "done" /\ aret.ch)
  /\ Len(updates) < MaxUpdates
  /\ \E v \in UpdateValues :
       LET j == MarshalJSON(v)
           failed(answer) == [v |-> v, ok |-> FALSE, held |-> store.val,
                              answer |-> answer, hash |-> <<>>]
       IN
       IF ~JSONValid(j)
       THEN /\ panicked' = TRUE
            /\ updates' = Append(updates, failed("none"))
            /\ UNCHANGED store
       ELSE \E answer \in {"hash", "error", "down"} :
            IF answer = "down"
            THEN /\ panicked' = TRUE
                 /\ updates' = Append(updates, failed("down"))
                 /\ UNCHANGED store
            ELSE IF answer = "error"
            THEN /\ updates' = Append(updates, failed("error"))
                 /\ UNCHANGED <<store, panicked>>
            ELSE /\ updates' = Append(updates,
                                  [v |-> v, ok |-> TRUE, held |-> UnmarshalJSON(j).val,
                                   answer |-> "hash",
                                   hash |-> StoreCommit(Len(Applied) + 1)])
                 /\ store' = [has |-> TRUE, val |-> UnmarshalJSON(j).val]
                 /\ UNCHANGED panicked
  /\ UNCHANGED <<api, server, open, wire, term, firstCommit, request, status,
                 codecVars, pathVars, viewVars, rd, hd, callVars, closeVars, decVars, apiVars, watchVars,
                 got, abandoned>>

(* Reading the key and the head of the store *)

\* What the store answers to read: the Value the key holds in a list, an
\* empty list for a key that is not there; or an error message.
ReadReplies ==
  {[kind |-> "store", Error |-> <<>>,
    Result |-> IF store.has THEN <<UnmarshalValue(ValueJSON(store.val)).val>> ELSE <<>>],
   [kind |-> "error", Error |-> StrBaz, Result |-> <<>>]}

\* Conn.Read behind rest.Call: the server's error, more than one result,
\* the one result, or no result at all.
ReadOf(reply) ==
  IF reply.Error # <<>> THEN [val |-> <<>>, err |-> Err("server", reply.Error)]
  ELSE IF Len(reply.Result) > 1 THEN [val |-> <<>>, err |-> Err("results", <<>>)]
  ELSE IF Len(reply.Result) = 1 THEN [val |-> reply.Result[1], err |-> NoErr]
  ELSE [val |-> <<>>, err |-> Err("invalid key", <<>>)]

\* Conn.ReadString on what Read returned: the bytes as a string when they
\* are valid UTF-8.
ReadStringOf(res) ==
  IF res.err # NoErr THEN [val |-> <<>>, err |-> res.err]
  ELSE IF Utf8Valid(res.val) THEN res
  ELSE [val |-> <<>>, err |-> Err("utf8", <<>>)]

\* d, err := r.ReadString(path): a GET that fails is an error of Call.
ReadString ==
  /\ api = "kv" /\ ~panicked
  /\ \/ \E reply \in ReadReplies :
          rd' = [done |-> TRUE, n |-> Len(updates), kind |-> reply.kind,
                 ret |-> ReadStringOf(ReadOf(reply))]
     \/ rd' = [done |-> TRUE, n |-> Len(updates), kind |-> "down",
                ret |-> [val |-> <<>>, err |-> Err("transport", <<>>)]]
  /\ UNCHANGED <<api, server, open, wire, term, firstCommit, request, status,
                 codecVars, pathVars, viewVars, updates, store, hd, callVars, closeVars, decVars,
                 apiVars, watchVars, userVars>>

\* The commits the store has: one per Update it took, and one before them
\* when the key was there from the start.
HeadCommit ==
  IF Len(Applied) > 0 THEN <<StoreCommit(Len(Applied))>>
  ELSE IF store.has THEN <<StoreCommit(0)>>
  ELSE <<>>

\* What the server answers to head: the head commit in hex in a list, an
\* empty list for an empty store; or two results, or a result that is no
\* hex, or an error message.
HeadReplies ==
  {[kind |-> "store", Error |-> <<>>, Result |-> HeadCommit],
   [kind |-> "two",   Error |-> <<>>, Result |-> <<StrAB12, StrCD>>],
   [kind |-> "nohex", Error |-> <<>>, Result |-> <<StrZZ>>],
   [kind |-> "error", Error |-> StrBaz, Result |-> <<>>]}

\* Conn.Head behind rest.Call.
HeadAnyCount(reply) ==
  IF reply.Error # <<>> THEN [nil |-> FALSE, b |-> <<>>, err |-> Err("server", reply.Error)]
  ELSE IF Len(reply.Result) >= 1
  THEN LET h == HexDecodeString(reply.Result[1]) IN
       IF h.err THEN [nil |-> FALSE, b |-> <<>>, err |-> Err("hash", reply.Result[1])]
       ELSE [nil |-> FALSE, b |-> h.val, err |-> NoErr]
  ELSE [nil |-> TRUE, b |-> <<>>, err |-> NoErr]
HeadOf(reply) ==
  IF reply.Error # <<>> THEN [nil |-> FALSE, b |-> <<>>, err |-> Err("server", reply.Error)]
  ELSE IF Len(reply.Result) > 1 THEN [nil |-> FALSE, b |-> <<>>, err |-> Err("results", <<>>)]
  ELSE IF Len(reply.Result) = 1
  THEN LET h == HexDecodeString(reply.Result[1]) IN
       IF h.err THEN [nil |-> FALSE, b |-> <<>>, err |-> Err("hash", reply.Result[1])]
       ELSE [nil |-> FALSE, b |-> h.val, err |-> NoErr]
  ELSE [nil |-> TRUE, b |-> <<>>, err |-> NoErr]

\* v, err := r.Head()
ConnHead ==
  /\ api = "kv" /\ ~panicked
  /\ \/ \E reply \in HeadReplies :
          hd' = [done |-> TRUE, n |-> Len(updates), kind |-> reply.kind,
                 Result |-> reply.Result, ret |-> HeadOf(reply)]
     \/ hd' = [done |-> TRUE, n |-> Len(updates), kind |-> "down", Result |-> <<>>,
                ret |-> [nil |-> FALSE, b |-> <<>>, err |-> Err("transport", <<>>)]]
  /\ UNCHANGED <<api, server, open, wire, term, firstCommit, request, status,
                 codecVars, pathVars, viewVars, updates, store, rd, callVars, closeVars, decVars,
                 apiVars, watchVars, userVars>>

(* A Path, its URL and the way back *)

\* Letters, digits and - _ . ~ : net/url escapes them in no mode.
Unreserved(c) ==
  c \in 48..57 \/ c \in 65..90 \/ c \in 97..122 \/ c \in {45, 95, 46, 126}

\* net/url shouldEscape in the modes used here: "query" (a query component,
\* as QueryEscape asks for) and "path" (a whole path, as URL.String asks
\* for).  Of the reserved $ & + , / : ; = @ a path keeps every one and a
\* query component none; ? and everything else is escaped.
ShouldEscape(c, mode) ==
  IF Unreserved(c) THEN FALSE
  ELSE IF c \in {36, 38, 43, 44, 47, 58, 59, 61, 64} THEN mode = "query"
  ELSE TRUE

UpperHexDigit(n) == IF n < 10 THEN 48 + n ELSE 65 + n - 10

\* net/url escape: %XX in upper case for what must be escaped, and + for a
\* space in a query component.
RECURSIVE Escape(_, _)
Escape(s, mode) ==
  IF s = <<>> THEN <<>>
  ELSE LET c == Head(s) IN
       (IF c = 32 /\ mode = "query" THEN <<43>>
        ELSE IF ShouldEscape(c, mode)
        THEN <<37, UpperHexDigit(c \div 16), UpperHexDigit(c % 16)>>
        ELSE <<c>>) \o Escape(Tail(s), mode)

\* url.QueryEscape
QueryEscape(s) == Escape(s, "query")

\* net/url unescape: %XX to its byte, + to a space in a query component, and
\* an error for a % that two hex digits do not follow.
RECURSIVE Unescape(_, _)
Unescape(s, mode) ==
  IF s = <<>> THEN [err |-> FALSE, val |-> <<>>]
  ELSE IF Head(s) = 37
  THEN IF Len(s) < 3 \/ FromHexChar(s[2]) < 0 \/ FromHexChar(s[3]) < 0
       THEN [err |-> TRUE, val |-> <<>>]
       ELSE LET r == Unescape(SubSeq(s, 4, Len(s)), mode) IN
            IF r.err THEN r
            ELSE [err |-> FALSE,
                  val |-> <<16 * FromHexChar(s[2]) + FromHexChar(s[3])>> \o r.val]
  ELSE LET r == Unescape(Tail(s), mode) IN
       IF r.err THEN r
       ELSE [err |-> FALSE,
             val |-> <<IF Head(s) = 43 /\ mode = "query" THEN 32 ELSE Head(s)>> \o r.val]

\* url.QueryUnescape
QueryUnescape(s) == Unescape(s, "query")

\* url.Parse of what Path.URL builds: one slash and a non-empty escaped
\* segment, any number of times, so that there is no scheme, no authority,
\* no ? and no #, and all of it is the path.  Path is the unescaped text;
\* RawPath keeps the text given when it is not the default escaping of Path.
URLParse(raw) ==
  LET u == Unescape(raw, "path") IN
  [err |-> u.err,
   Path |-> u.val,
   RawPath |-> IF u.err \/ raw = Escape(u.val, "path") THEN <<>> ELSE raw]

\* net/url validEncoded for a path
ValidEncoded(s) ==
  \A i \in 1..Len(s) :
    \/ s[i] \in {33, 36, 38, 39, 40, 41, 42, 43, 44, 59, 61, 58, 64, 91, 93, 37}
    \/ ~ShouldEscape(s[i], "path")

\* URL.String() of a URL that has a path only: EscapedPath, which is RawPath
\* when that is a valid escaping of Path, and the default escaping otherwise.
URLString(u) ==
  IF /\ u.RawPath # <<>> /\ ValidEncoded(u.RawPath)
     /\ ~Unescape(u.RawPath, "path").err
     /\ Unescape(u.RawPath, "path").val = u.Path
  THEN u.RawPath
  ELSE IF u.Path = <<42>> THEN <<42>>
  ELSE Escape(u.Path, "path")

\* buf of Path.URL: a slash and the escaped segment, for each segment
RECURSIVE PathURLText(_)
PathURLText(p) ==
  IF p = <<>> THEN <<>>
  ELSE <<47>> \o QueryEscape(Head(p)) \o PathURLText(Tail(p))

\* Path.URL: the parsed text, or the empty URL for the empty Path; a text
\* that does not parse is a panic.
PathURL(p) ==
  IF Len(p) > 0 THEN URLParse(PathURLText(p))
  ELSE [err |-> FALSE, Path |-> <<>>, RawPath |-> <<>>]

\* ParseEncodedPath: trimmed, split at the slashes, each piece unescaped; the
\* first piece that does not unescape makes it an error and the empty Path.
ParseEncodedPath(p) ==
  LET segs == Split(Trim(p))
      is == [i \in 1..Len(segs) |-> QueryUnescape(segs[i])]
  IN IF \E i \in 1..Len(segs) : is[i].err
     THEN [err |-> TRUE, val |-> <<>>]
     ELSE [err |-> FALSE, val |-> [i \in 1..Len(segs) |-> is[i].val]]

\* s := path.URL().String()
PathToURL ==
  /\ api = "path" /\ ppc = "url"
  /\ LET u == PathURL(ppath) IN
     /\ purl' = [panic |-> u.err, str |-> IF u.err THEN <<>> ELSE URLString(u)]
     /\ ppc' = IF u.err THEN "done" ELSE "parse"
  /\ UNCHANGED <<api, server, open, wire, term, firstCommit, request, status,
                 codecVars, storeVars, viewVars, ppath, pback, ptext, proot, callVars, closeVars, decVars,
                 apiVars, watchVars, userVars>>

\* q, err := ParseEncodedPath(s)
PathFromURL ==
  /\ api = "path" /\ ppc = "parse"
  /\ pback' = ParseEncodedPath(purl.str)
  /\ ppc' = "done"
  /\ UNCHANGED <<api, server, open, wire, term, firstCommit, request, status,
                 codecVars, storeVars, viewVars, ppath, purl, ptext, proot, callVars, closeVars, decVars,
                 apiVars, watchVars, userVars>>

\* Path.String: a slash and the segment, for each segment
RECURSIVE PathString(_)
PathString(p) ==
  IF p = <<>> THEN <<>> ELSE <<47>> \o Head(p) \o PathString(Tail(p))

\* p := ParsePath(s); q, err := ParseEncodedPath(s); and the String() and
\* the URL of both
PathParseText ==
  /\ api = "path" /\ ppc = "text"
  /\ LET p == ParsePath(ptext)
         q == ParseEncodedPath(ptext)
     IN proot' = [done |-> TRUE,
                  plain |-> p, plainString |-> PathString(p),
                  plainURL |-> URLString(PathURL(p)),
                  err |-> q.err,
                  enc |-> q.val, encString |-> PathString(q.val),
                  encURL |-> URLString(PathURL(q.val))]
  /\ ppc' = "parsed"
  /\ UNCHANGED <<api, server, open, wire, term, firstCommit, request, status,
                 codecVars, storeVars, viewVars, ppath, purl, pback, ptext, callVars,
                 closeVars, decVars, apiVars, watchVars, userVars>>

(* A View and the calls made on it *)

\* What the server can answer to a command of a view, as rest.Call meets
\* it: a result, an error message, both, neither, a status other than 200,
\* a body that json.Unmarshal refuses after it has set the result, or no
\* response at all.
ViewReplies(result) ==
  {[kind |-> "result", Error |-> <<>>,   Result |-> result],
   [kind |-> "error",  Error |-> StrBaz, Result |-> <<>>],
   [kind |-> "both",   Error |-> StrBaz, Result |-> result],
   [kind |-> "empty",  Error |-> <<>>,   Result |-> <<>>],
   [kind |-> "status", Error |-> <<>>,   Result |-> <<>>],
   [kind |-> "broken", Error |-> <<>>,   Result |-> result],
   [kind |-> "down",   Error |-> <<>>,   Result |-> <<>>]}

\* The err of view.srv.Call: the status, the refused body, the failed GET
\* (a failed POST does not come back from Call).
CallError(reply) ==
  IF reply.kind = "status" THEN Err("status", <<>>)
  ELSE IF reply.kind = "broken" THEN Err("decode", <<>>)
  ELSE IF reply.kind = "down" THEN Err("transport", <<>>)
  ELSE NoErr

\* The node of the nth call the server answers with a hash.
NodeHash(n) == HexEncodeToString(<<n>>)

\* An Update that stores whatever result the reply carries.
ViewUpdateOfAnyResult(v, reply) ==
  [view |-> [v EXCEPT !.node = reply.Result], ret |-> reply.Result,
   err |-> CallError(reply)]
\* View.Update behind Call: what it returns and the View it leaves.
ViewUpdateOf(v, reply) ==
  IF CallError(reply) # NoErr
  THEN [view |-> v, ret |-> reply.Result, err |-> CallError(reply)]
  ELSE IF reply.Error # <<>>
  THEN [view |-> v, ret |-> <<>>, err |-> Err("server", reply.Error)]
  ELSE IF reply.Result = <<>>
  THEN [view |-> v, ret |-> <<>>, err |-> Err("no hash", <<>>)]
  ELSE [view |-> [v EXCEPT !.node = reply.Result], ret |-> reply.Result, err |-> NoErr]

\* The contents given to View.Update: foo, and a"b, which MarshalJSON turns
\* into a text that is no JSON.
ViewContents == {StrFoo, <<97, 34, 98>>}

\* One call on the View as it is logged.
ViewCall(op, reply, ret, err, after) ==
  [op |-> op, node |-> QueryEscape(view.node), kind |-> reply.kind,
   Result |-> reply.Result, ret |-> ret, err |-> err,
   before |-> view, after |-> after]
NoReplyAtAll == [kind |-> "none", Error |-> <<>>, Result |-> <<>>]

\* hash, err := view.Update(t, path, contents): a body that is no JSON and
\* a POST that fails end in a panic inside Call.
ViewUpdate ==
  /\ api = "view" /\ ~panicked /\ Len(vcalls) < MaxViewCalls
  /\ \E c \in ViewContents :
       IF ~JSONValid(MarshalJSON(c))
       THEN /\ panicked' = TRUE
            /\ vcalls' = Append(vcalls, ViewCall("update", NoReplyAtAll, <<>>, NoErr, view))
            /\ view' = view
       ELSE \E reply \in ViewReplies(NodeHash(Len(vcalls) + 1)) :
            LET r == ViewUpdateOf(view, reply) IN
            IF reply.kind = "down"
            THEN /\ panicked' = TRUE
                 /\ vcalls' = Append(vcalls, ViewCall("update", reply, <<>>, NoErr, view))
                 /\ view' = view
            ELSE /\ view' = r.view
                 /\ vcalls' = Append(vcalls, ViewCall("update", reply, r.ret, r.err, r.view))
                 /\ UNCHANGED panicked
  /\ UNCHANGED <<api, server, open, wire, term, firstCommit, request, status,
                 codecVars, storeVars, pathVars, callVars, closeVars, decVars,
                 apiVars, watchVars, got, abandoned>>

\* A call that leaves the View alone: its command names view.node, Call
\* gets the server's answer, and the error is the one of Call, the server's
\* message, or for UpdatePath the missing hash.
ViewOther(op, post, needsResult) ==
  /\ api = "view" /\ ~panicked /\ Len(vcalls) < MaxViewCalls
  /\ \E reply \in ViewReplies(StrFoo) :
       IF post /\ reply.kind = "down"
       THEN /\ panicked' = TRUE
            /\ vcalls' = Append(vcalls, ViewCall(op, reply, <<>>, NoErr, view))
       ELSE /\ vcalls' = Append(vcalls,
                  ViewCall(op, reply,
                           IF op = "read" /\ CallError(reply) = NoErr /\ reply.Error = <<>>
                           THEN reply.Result ELSE <<>>,
                           IF CallError(reply) # NoErr THEN CallError(reply)
                           ELSE IF reply.Error # <<>> THEN Err("server", reply.Error)
                           ELSE IF needsResult /\ reply.Result = <<>>
                           THEN Err("no hash", <<>>)
                           ELSE NoErr,
                           view))
            /\ UNCHANGED panicked
  /\ UNCHANGED <<api, server, open, wire, term, firstCommit, request, status,
                 codecVars, storeVars, pathVars, view, callVars, closeVars, decVars,
                 apiVars, watchVars, got, abandoned>>

\* b, err := view.Read(path): a GET
ViewRead == ViewOther("read", FALSE, FALSE)
\* err := view.MergePath(t, tree, path): a POST with view.head as its body
ViewMergePath == ViewOther("merge-path", TRUE, FALSE)
\* err := view.UpdatePath(t, tree, path): a POST
ViewUpdatePath == ViewOther("update-path", TRUE, TRUE)

\* What CallStream makes of the request of Iter: a stream that opens, a
\* body it refuses, or a GET that fails.
IterReplies ==
  {[kind |-> "stream",  Error |-> <<>>, Result |-> <<>>],
   [kind |-> "refused", Error |-> <<>>, Result |-> <<>>],
   [kind |-> "down",    Error |-> <<>>, Result |-> <<>>]}
IterError(reply) ==
  IF reply.kind = "stream" THEN NoErr
  ELSE IF reply.kind = "refused" THEN Err("open", <<>>)
  ELSE Err("transport", <<>>)

\* ch, err := view.Iter(): the GET of CallStream, whose command names
\* view.node; the stream it opens is the one of CallStream.
ViewIter ==
  /\ api = "view" /\ ~panicked /\ Len(vcalls) < MaxViewCalls
  /\ \E reply \in IterReplies :
       vcalls' = Append(vcalls, ViewCall("iter", reply, <<>>, IterError(reply), view))
  /\ UNCHANGED <<api, server, open, wire, term, firstCommit, request, status,
                 codecVars, storeVars, pathVars, view, callVars, closeVars, decVars,
                 apiVars, watchVars, userVars>>

(* A Value through its codec *)

\* j, err := v.MarshalJSON()
ValueMarshal ==
  /\ api = "codec" /\ vpc = "marshal"
  /\ text' = MarshalJSON(value)
  /\ vpc' = "unmarshal"
  /\ UNCHANGED <<api, server, open, wire, term, firstCommit, request, status,
                 value, back, storeVars, pathVars, viewVars, callVars, closeVars, decVars, apiVars, watchVars,
                 userVars>>

\* var w Value; err = w.UnmarshalJSON(j)
ValueUnmarshal ==
  /\ api = "codec" /\ vpc = "unmarshal"
  /\ back' = UnmarshalJSON(text)
  /\ vpc' = "done"
  /\ UNCHANGED <<api, server, open, wire, term, firstCommit, request, status,
                 value, text, storeVars, pathVars, viewVars, callVars, closeVars, decVars, apiVars, watchVars,
                 userVars>>

\* Steps of the goroutines the calls start, and of the calls themselves.
BackgroundStep == CallStreamSteps \/ WatchSteps \/ WatchPathSteps

Next ==
  \/ ValueMarshal
  \/ ValueUnmarshal
  \/ PathToURL
  \/ PathFromURL
  \/ PathParseText
  \/ ViewUpdate
  \/ ViewRead
  \/ ViewMergePath
  \/ ViewUpdatePath
  \/ ViewIter
  \/ Update
  \/ ReadString
  \/ ConnHead
  \/ BackgroundStep
  \/ StreamConsumerRecv
  \/ WatchConsumerRecv
  \/ ConsumerAbandon

\* One call of CallStream, Watch or WatchPath against one response body,
\* and the consumer of the channel it returns.
Spec == Init /\ [][Next]_vars

----------------------------------------------------------------------------
(* What the claims speak of: the stream as the server wrote it, and what   *)
(* has come out of the channels.                                           *)

RECURSIVE SeqSum(_)
SeqSum(q) == IF q = <<>> THEN 0 ELSE Head(q) + SeqSum(Tail(q))

\* An element that is a reply with a result, and the StreamReply it carries.
HasResult(e) == e.t = "obj" /\ "result" \in DOMAIN e.v
ReplyOf(e)   == [Error |-> e.v.error.v, Result |-> e.v.result]

\* The body opened as [ {"stream":"start"}, {"version":v}, ...
IsStartElem(e) == e.t = "obj" /\ "stream" \in DOMAIN e.v /\ e.v.stream = JStr(StrStart)
WellFramed == open.tok = "[" /\ Len(wire) >= 2 /\ IsStartElem(wire[1]) /\ wire[2] = ElVersion

\* After the handshake the wire holds replies with results only, or such
\* replies and then the end marker.
RepliesOnly(from, to) == \A i \in from..to : HasResult(wire[i])
EndsWithMarker == Len(wire) >= 3 /\ wire[Len(wire)] = ElEnd /\ RepliesOnly(3, Len(wire) - 1)
CleanStream  == WellFramed /\ (RepliesOnly(3, Len(wire)) \/ EndsWithMarker)
CleanCount   == IF EndsWithMarker THEN Len(wire) - 3 ELSE Len(wire) - 2
CleanReplies == [i \in 1..CleanCount |-> ReplyOf(wire[i + 2])]

\* What the decode goroutine holds for its blocked or coming send.
DecoderPending == IF dpc = "send" THEN <<ds>> ELSE <<>>
\* What a watch goroutine holds for its blocked or coming send.
WatchPending == IF wpc = "send" THEN <<wcur>> ELSE <<>>
\* Everything sent on the channel the caller was given, in order.
Delivered == IF api = "stream" THEN got \o ch ELSE got \o out

\* Single-key payloads read by the rules of the protocol: a list of lists
\* of values; an entry counts when it has two elements and a hex commit.
IsValueList(e) == e.t = "arr" /\ \A i \in 1..Len(e.v) : ~UnmarshalValue(e.v[i]).err
IsPairList(res) == res.t = "arr" /\ \A i \in 1..Len(res.v) : IsValueList(res.v[i])
CommitHexOK(e) == e.v[1].t = "str" /\ ~HexDecodeString(e.v[1].v).err
EntryOK(e) == Len(e.v) = 2 /\ CommitHexOK(e)
PairOf(e)  == [Commit |-> HexDecodeString(e.v[1].v).val, Value |-> UnmarshalValue(e.v[2]).val]
ValidPairsOf(entries) ==
  LET ok == SelectSeq(entries, EntryOK) IN [i \in 1..Len(ok) |-> PairOf(ok[i])]
ValidPairs(res) == IF IsPairList(res) THEN ValidPairsOf(res.v) ELSE <<>>
RECURSIVE ConcatPairs(_)
ConcatPairs(ms) ==
  IF ms = <<>> THEN <<>> ELSE ValidPairs(Head(ms).Result) \o ConcatPairs(Tail(ms))

\* Subtree payloads read by the rules of the protocol.
IsChange(e) ==
  /\ e.t = "arr" /\ Len(e.v) = 2
  /\ e.v[1].t = "str"
  /\ IsValueList(e.v[2])
HasHexCommit(res) == res.t = "arr" /\ Len(res.v) >= 1 /\ res.v[1].t = "str"
BadHexCommit(res) == HasHexCommit(res) /\ HexDecodeString(res.v[1].v).err
GoodHexCommit(res) == HasHexCommit(res) /\ ~HexDecodeString(res.v[1].v).err
ValidCommit(res) ==
  /\ GoodHexCommit(res) /\ Len(res.v) >= 2
  /\ res.v[2].t = "arr"
  /\ \A x \in 1..Len(res.v[2].v) : IsChange(res.v[2].v[x])
MalformedChange(res) ==
  /\ GoodHexCommit(res) /\ Len(res.v) >= 2
  /\ res.v[2].t = "arr"
  /\ \E x \in 1..Len(res.v[2].v) : ~IsChange(res.v[2].v[x])
FatalCommit(res) == ~ValidCommit(res) /\ ~BadHexCommit(res)
ChangeOf(e) ==
  [Change |-> e.v[1].v,
   Key |-> [y \in 1..Len(e.v[2].v) |-> UnmarshalValue(e.v[2].v[y]).val]]
RecordOf(res) ==
  [Commit |-> HexDecodeString(res.v[1].v).val,
   Changes |-> [x \in 1..Len(res.v[2].v) |-> ChangeOf(res.v[2].v[x])],
   Error |-> NoErr]
ErrorCount(d) == Cardinality({i \in 1..Len(d) : d[i].Error # NoErr})

----------------------------------------------------------------------------
(* Claims *)

\* C1: for a body [start, version, r1..rN, end] whose ri all have a result,
\* CallStream hands back a channel, everything put on it is r1..rN in
\* arrival order at every moment (never the start, version or end element),
\* and once the end marker and the closing ] are read the channel holds
\* exactly r1..rN and is closed.
C1_StreamDeliversReplies ==
  (api = "stream" /\ server = "finite" /\ CleanStream) =>
    /\ cpc = "done" => (cret.ch /\ cret.err = NoErr)
    /\ got \o ch \o DecoderPending = CleanReplies
    /\ (EndsWithMarker /\ term = "close") =>
         (dpc = "done" /\ chClosed /\ got \o ch = CleanReplies)

\* C1 witness: two distinct replies and the end marker were sent, the
\* consumer has both replies in order and the channel is closed and empty.
C1_Witness ==
  /\ api = "stream" /\ server = "finite"
  /\ wire = <<ElStart, ElVersion, R1, R2, ElEnd>> /\ term = "close"
  /\ got = <<[Error |-> <<>>, Result |-> JStr(StrFoo)],
             [Error |-> <<>>, Result |-> JStr(StrBar)]>>
  /\ ch = <<>> /\ chClosed

\* C2: when the first array element is not an object with stream = "start",
\* opening fails: no goroutine is started, nothing is ever produced, and
\* CallStream, Watch and WatchPath return no channel and a non-nil error.
C2_BadStartIsSetupError ==
  (open.tok = "[" /\ Len(wire) >= 1 /\ ~IsStartElem(wire[1])) =>
    /\ dpc = "none" /\ wpc = "none"
    /\ ch = <<>> /\ out = <<>> /\ got = <<>>
    /\ cpc = "done" => (~cret.ch /\ cret.err # NoErr)
    /\ apc = "done" => (~aret.ch /\ aret.err # NoErr)

\* C2 is stated as it is claimed. What the code does instead, for the body
\* [{"stream":"no"}, ...]: the element decodes, so CallStream returns
\* (nil, nil), and Watch hands the pair on to its caller.
C2_Witness ==
  /\ api = "watch" /\ open.tok = "["
  /\ wire = <<ElOther>>
  /\ cpc = "done" /\ ~cret.ch /\ cret.err = NoErr
  /\ apc = "done" /\ ~aret.ch /\ aret.err = NoErr


\* Everything a watch goroutine has sent or is about to send, in order.
Sent == Delivered \o WatchPending
Last(q) == q[Len(q)]

\* A message of K >= 2 [commit, value] pairs of which exactly one has a
\* commit that is no hex, and the pairs of its other entries.
BadEntries(res) == {i \in 1..Len(res.v) : ~CommitHexOK(res.v[i])}
OneBadHex(res) ==
  /\ IsPairList(res) /\ Len(res.v) >= 2
  /\ \A i \in 1..Len(res.v) : Len(res.v[i].v) = 2 /\ res.v[i].v[1].t = "str"
  /\ Cardinality(BadEntries(res)) = 1
OthersOf(res) ==
  LET j == CHOOSE i \in BadEntries(res) : TRUE
      n == Len(res.v) - 1
  IN [i \in 1..n |-> PairOf(res.v[IF i < j THEN i ELSE i + 1])]
\* The watch goroutine is through with message number k.
MessageDone(k) == k < Len(msgs) \/ widx > Len(wmsg)
\* The output channel is closed only when the stream has ended.
OpenUntilStreamEnds == outClosed => (chClosed /\ ch = <<>>)

EndsTheWatch(k) ==
  /\ k = Len(msgs)
  /\ wpc \in {"send", "done"}
  /\ Sent # <<>> /\ Last(Sent).Error # NoErr
  /\ ErrorCount(Sent) = 1
  /\ wpc = "done" => (outClosed /\ Last(Delivered).Error # NoErr)

\* C4: subtree WatchPath, a message whose change list has a malformed
\* [changeKind, path] entry: one record with Error set is sent for it, it is
\* the last record of the output, the channel is then closed, and no later
\* message is taken up even when one is waiting.
C4_MalformedChangeEndsWatch ==
  api = "watchpath" =>
    \A k \in 1..Len(msgs) : MalformedChange(msgs[k].Result) => EndsTheWatch(k)

\* C4 witness: ["ab12",[["+",["a"]],["+"]]] was received and a valid message
\* came after it on the wire; the consumer holds exactly the error record,
\* the output is closed and the valid message was never taken up.
C4_Witness ==
  /\ api = "watchpath"
  /\ wire = <<ElStart, ElVersion, Reply(P4), Reply(P1)>>
  /\ Len(msgs) = 1 /\ msgs[1].Result = P4
  /\ Len(ch) = 1 /\ ch[1].Result = P1
  /\ Len(got) = 1 /\ got[1].Error # NoErr
  /\ out = <<>> /\ outClosed /\ wpc = "done"

\* The messages among the first k that are owed a record: all but those
\* whose commit is no hex.
Yielding(k) == {i \in 1..k : ~BadHexCommit(msgs[i].Result)}

C6_ErrorRecordIsLast ==
  api = "watchpath" =>
    /\ ErrorCount(Sent) <= 1
    /\ \A i \in 1..Len(Sent) : Sent[i].Error # NoErr => i = Len(Sent)
    /\ (\E i \in 1..Len(Delivered) : Delivered[i].Error # NoErr) =>
         (outClosed /\ wpc = "done")

\* C6 witness: a valid message and then one with a malformed change were
\* received; the consumer holds the record of the first and then the error
\* record, and the output is closed.
C6_Witness ==
  /\ api = "watchpath"
  /\ Len(msgs) = 2 /\ msgs[1].Result = P1 /\ msgs[2].Result = P4
  /\ Len(got) = 2 /\ got[1].Error = NoErr /\ got[2].Error # NoErr
  /\ out = <<>> /\ outClosed

\* What the entries of the message in hand that the goroutine is through
\* with yield.
CurrentPairs ==
  IF msgs # <<>> /\ IsPairList(Last(msgs).Result)
  THEN ValidPairsOf(SubSeq(Last(msgs).Result.v, 1, widx - 1))
  ELSE <<>>
IsValidMsg(m) == ValidCommit(m.Result)
IsFatalMsg(m) == FatalCommit(m.Result)
\* The messages received before the first fatal one.
BeforeFatal ==
  LET n == Len(msgs)
      stop == IF \E i \in 1..n : IsFatalMsg(msgs[i])
              THEN CHOOSE i \in 1..n :
                     IsFatalMsg(msgs[i]) /\ \A y \in 1..(i - 1) : ~IsFatalMsg(msgs[y])
              ELSE n + 1
  IN SubSeq(msgs, 1, stop - 1)

\* C7: order is kept, nothing valid is lost or doubled. The replies reach
\* the watch goroutine in the order of the wire; single-key Watch has sent
\* the valid pairs of the earlier messages, message after message, and
\* then those of the message in hand, in the order of its entries;
\* subtree WatchPath has sent one record per valid message in the order of
\* the messages, the changes of each in their order.
C7_OrderPreserved ==
  /\ (api # "stream" /\ server = "finite" /\ CleanStream) =>
       msgs \o ch \o DecoderPending = CleanReplies
  /\ api = "watch" =>
       Sent = ConcatPairs(SubSeq(msgs, 1, Len(msgs) - 1)) \o CurrentPairs
  /\ api = "watchpath" =>
       LET lead == SelectSeq(BeforeFatal, IsValidMsg) IN
       /\ Len(Sent) >= Len(lead)
       /\ SubSeq(Sent, 1, Len(lead)) = [i \in 1..Len(lead) |-> RecordOf(lead[i].Result)]

\* C7 witness: [["Cd","bar"],["ab12",{"hex":"ff"}]] and then a message whose
\* third entry alone is a pair, ["Cd","baz"], were received; the consumer
\* holds the three pairs in that order.
C7_Witness ==
  /\ api = "watch"
  /\ Len(msgs) = 2 /\ msgs[1].Result = W0 /\ msgs[2].Result = W4
  /\ got = <<[Commit |-> <<205>>, Value |-> StrBar],
             [Commit |-> <<171, 18>>, Value |-> <<255>>],
             [Commit |-> <<205>>, Value |-> StrBaz]>>

\* C8: the body of a response CallStream obtained is closed at most once,
\* and when it is closed CallStream has returned and the decode goroutine,
\* if it was started, has finished: nothing reads from a closed body.
C8_BodyClosedOnceAfterReaders ==
  /\ bodyClosed <= 1
  /\ bodyClosed = 1 <=> closer = "done"
  /\ bodyClosed = 1 => (wg = 0 /\ cpc = "done" /\ dpc \in {"none", "done"})
  /\ (cpc = "done" /\ cret.ch /\ dpc # "done") => bodyClosed = 0

\* C8 witness: CallStream returned a channel, the decode goroutine ran to
\* its end after delivering a reply, and the body was then closed, once.
C8_Witness ==
  /\ cpc = "done" /\ cret.ch
  /\ dpc = "done" /\ chClosed /\ Len(got) + Len(ch) + Len(msgs) >= 1
  /\ bodyClosed = 1

\* The goroutines of the program are scheduled: a step one of them can take
\* is taken in the end.
FairSpec == Spec /\ WF_vars(BackgroundStep)

\* C9: once the consumer has walked away from the channel while the server
\* keeps sending, the body is closed and the goroutines end all the same.
C9_AbandonedStreamIsReleased ==
  (abandoned /\ server = "endless") ~>
    (bodyClosed = 1 /\ dpc = "done" /\ wpc \in {"none", "done"})

\* C9 is stated as it is claimed. What the code does instead: the consumer
\* of CallStream is gone, the channel holds its 100 replies, the decode
\* goroutine stands at ch <- s with one more, the group never reaches zero
\* and the body stays open: no step is left to take.
C9_Witness ==
  /\ api = "stream" /\ server = "endless" /\ abandoned
  /\ Len(ch) = ChanCap /\ dpc = "send"
  /\ wg = 1 /\ closer = "waiting" /\ bodyClosed = 0
  /\ ~ENABLED BackgroundStep

\* A message all of whose entries are [commitHex, value] pairs.
AllGood(res) == IsPairList(res) /\ \A i \in 1..Len(res.v) : EntryOK(res.v[i])
WellFormedWatch ==
  /\ api = "watch" /\ server = "finite" /\ CleanStream
  /\ \A i \in 1..CleanCount : AllGood(CleanReplies[i].Result)
IsPrefix(p, q) == Len(p) <= Len(q) /\ SubSeq(q, 1, Len(p)) = p
PairCounts(ms) == [i \in 1..Len(ms) |-> Len(ms[i].Result.v)]

\* C10: single-key Watch on a well-formed stream: Watch returns a channel
\* and no error, nothing panics, every pair of every message is sent once,
\* in order, as the bytes of its commit hex and its decoded value, and when
\* the end marker and the closing ] are read and the goroutine is done the
\* output holds them all and is closed; [["ab12","foo"]] alone yields the
\* one pair (0xab 0x12, "foo").
C10_WatchDecodesPairs ==
  WellFormedWatch =>
    LET all == ConcatPairs(CleanReplies) IN
    /\ ~panicked
    /\ apc = "done" => (aret.ch /\ aret.err = NoErr)
    /\ Len(all) = SeqSum(PairCounts(CleanReplies))
    /\ IsPrefix(Sent, all)
    /\ outClosed => (term # "" /\ wpc = "done" /\ Delivered = all)
    /\ (EndsWithMarker /\ term = "close" /\ wpc = "done") => outClosed
    /\ (wire = <<ElStart, ElVersion, Reply(W1), ElEnd>> /\ outClosed) =>
         Delivered = <<[Commit |-> <<171, 18>>, Value |-> StrFoo]>>

\* C10 witness: the body [start, version, {"error":"","result":[["ab12",
\* "foo"]]}, end] was read to its closing ]; the consumer holds the one
\* pair (0xab 0x12, "foo") and the output is closed.
C10_Witness ==
  /\ api = "watch" /\ server = "finite"
  /\ wire = <<ElStart, ElVersion, Reply(W1), ElEnd>> /\ term = "close"
  /\ apc = "done" /\ aret.ch /\ aret.err = NoErr
  /\ got = <<[Commit |-> <<171, 18>>, Value |-> StrFoo]>>
  /\ out = <<>> /\ outClosed

\* C11: subtree WatchPath, a well-formed message [commitHex, [[kind1,
\* path1], ..., [kindM, pathM]]]: the one record sent for it has no Error,
\* its Commit is the bytes of commitHex, and it has M changes whose kinds
\* and path segments are the message's, in the message's order.
C11_WatchPathDecodesCommit ==
  api = "watchpath" =>
    \A k \in 1..Len(msgs) :
      ValidCommit(msgs[k].Result) =>
        LET res == msgs[k].Result
            n   == Cardinality(Yielding(k))
            M   == Len(res.v[2].v)
        IN /\ Len(Sent) >= n
           /\ Sent[n].Error = NoErr
           /\ Sent[n].Commit = HexDecodeString(res.v[1].v).val
           /\ Len(Sent[n].Changes) = M
           /\ \A x \in 1..M :
                LET e == res.v[2].v[x] IN
                /\ Sent[n].Changes[x].Change = e.v[1].v
                /\ Len(Sent[n].Changes[x].Key) = Len(e.v[2].v)
                /\ \A y \in 1..Len(e.v[2].v) :
                     Sent[n].Changes[x].Key[y] = UnmarshalValue(e.v[2].v[y]).val
           /\ res = P2 =>
                Sent[n] = [Commit |-> <<205>>,
                           Changes |-> <<[Change |-> StrStar, Key |-> <<StrA>>],
                                         [Change |-> StrMinus, Key |-> <<StrB, <<255>>>>]>>,
                           Error |-> NoErr]

\* C11 witness: ["Cd",[["*",["a"]],["-",["b",{"hex":"ff"}]]]] was received
\* and the consumer holds its record: commit 0xcd, the two changes in order.
C11_Witness ==
  /\ api = "watchpath"
  /\ Len(msgs) = 1 /\ msgs[1].Result = P2
  /\ got = <<[Commit |-> <<205>>,
              Changes |-> <<[Change |-> StrStar, Key |-> <<StrA>>],
                            [Change |-> StrMinus, Key |-> <<StrB, <<255>>>>]>>,
              Error |-> NoErr]>>

\* The record owed to message number k.
RecordFor(k) == Sent[Cardinality(Yielding(k))]

\* C12 as claimed: subtree WatchPath, the message ["ab12",[["+","/a/b"]]]
\* yields a record with Commit 0xab12, no error, and the one change
\* ("+", path of segments "a", "b").
C12_StringPathIsParsed ==
  api = "watchpath" =>
    \A k \in 1..Len(msgs) :
      msgs[k].Result = P7 =>
        RecordFor(k) = [Commit |-> <<171, 18>>,
                        Changes |-> <<[Change |-> StrPlus, Key |-> <<StrA, StrB>>]>>,
                        Error |-> NoErr]

\* C12 amended: the message ["ab12",[["+","/a/b"]]] fails to decode at its
\* path, which is a string and no list: its record has Commit 0xab12, one
\* change left empty and Error set, and it ends the watch. The message
\* with the path written ["a","b"] yields Commit 0xab12, no error and the
\* one change ("+", segments "a", "b").
C12_StringPathIsDecodeError ==
  api = "watchpath" =>
    \A k \in 1..Len(msgs) :
      /\ msgs[k].Result = P7 =>
           /\ EndsTheWatch(k)
           /\ RecordFor(k).Commit = <<171, 18>>
           /\ RecordFor(k).Changes = <<ZeroChange>>
           /\ RecordFor(k).Error # NoErr
      /\ msgs[k].Result = P1 =>
           RecordFor(k) = [Commit |-> <<171, 18>>,
                           Changes |-> <<[Change |-> StrPlus, Key |-> <<StrA, StrB>>]>>,
                           Error |-> NoErr]

\* C12 witness: ["ab12",[["+","/a/b"]]] was received; the consumer holds
\* the one record, with Commit 0xab12, an empty change and Error set, and the
\* output is closed.
C12_Witness ==
  /\ api = "watchpath"
  /\ Len(msgs) = 1 /\ msgs[1].Result = P7
  /\ Len(got) = 1 /\ got[1].Commit = <<171, 18>>
  /\ got[1].Changes = <<ZeroChange>> /\ got[1].Error # NoErr
  /\ out = <<>> /\ outClosed

\* Everything the decode goroutine has sent or is about to send, in order.
Decoded == (IF api = "stream" THEN got ELSE msgs) \o ch \o DecoderPending

\* C13: a reply with a non-empty error ends the sequence: if it is handed
\* on at all it is the last thing handed on, the decode goroutine stops
\* after it, and a watch does not read its result as an ordinary message.
C13_ErrorReplyEndsStream ==
  /\ \A i \in 1..Len(Decoded) :
       Decoded[i].Error # <<>> => (i = Len(Decoded) /\ dpc \in {"send", "done"})
  /\ api = "watch" =>
       \A k \in 1..Len(msgs) :
         msgs[k].Error # <<>> => (k = Len(msgs) /\ wpc \in {"recv", "done"})

\* C13 is stated as it is claimed. What the code does instead: nothing
\* reads StreamReply.Error. The reply {"error":"baz","result":"foo"} is
\* sent like any other and the reply after it as well.
C13_Witness ==
  /\ api = "stream"
  /\ wire = <<ElStart, ElVersion, RErr, R1>>
  /\ got = <<[Error |-> StrBaz, Result |-> JStr(StrFoo)],
             [Error |-> <<>>, Result |-> JStr(StrFoo)]>>
  /\ dpc = "read" /\ ~chClosed

\* C14: single-key Watch never panics: a message whose result is no list
\* of lists of values is passed over, the output stays open until the
\* stream ends, and the goroutine goes on to the next message.
C14_WatchNeverPanics ==
  api = "watch" =>
    /\ ~panicked
    /\ \A k \in 1..Len(msgs) :
         ~IsPairList(msgs[k].Result) =>
           (OpenUntilStreamEnds /\ (k = Len(msgs) => wpc \in {"recv", "done"}))

\* C14 is stated as it is claimed. What the code does instead: the result
\* {"hex":"ff"} fails json.Unmarshal into [][]Value and the goroutine calls
\* panic(err); the well-formed message sent after it is never delivered.
C14_Witness ==
  /\ api = "watch"
  /\ wire = <<ElStart, ElVersion, Reply(W5), Reply(W1)>>
  /\ Len(msgs) = 1 /\ msgs[1].Result = W5
  /\ panicked
  /\ got = <<>> /\ out = <<>> /\ ~outClosed

\* The stream decoder met, after the handshake and replies with results,
\* an element that does not decode as a reply: dec.Decode(s) failed.
DecodeFailed ==
  /\ server = "finite" /\ WellFramed /\ Len(wire) >= 3
  /\ DecodeStreamReply(Last(wire)).err
  /\ RepliesOnly(3, Len(wire) - 1)

\* C15: subtree WatchPath, a watch that ends because the stream decoder
\* failed on an element: when the output is closed, the last record
\* delivered on it carries Error.
C15_DecoderFailureIsReported ==
  (api = "watchpath" /\ DecodeFailed /\ outClosed) =>
    (Delivered # <<>> /\ Last(Delivered).Error # NoErr)

\* C15 is stated as it is claimed. What the code does instead: on a failed
\* dec.Decode(s) the decode goroutine returns and closes ch, `for m := range
\* ch` ends and out is closed; after ["ab12",[["+",["a","b"]]]] and the
\* element 5 the consumer holds the one good record and a closed channel,
\* as after a clean end.
C15_Witness ==
  /\ api = "watchpath"
  /\ wire = <<ElStart, ElVersion, Reply(P1), ElBad>>
  /\ dpc = "done" /\ chClosed /\ wpc = "done" /\ outClosed
  /\ Len(got) = 1 /\ got[1].Error = NoErr
  /\ out = <<>>

\* C16: a response whose status is not 2xx never opens the stream:
\* CallStream returns no channel and a non-nil error and starts no decode
\* goroutine, whatever the body holds.
C16_BadStatusIsSetupError ==
  (status # 0 /\ status \notin 200..299) =>
    /\ dpc = "none" /\ ch = <<>>
    /\ cpc = "done" => (~cret.ch /\ cret.err # NoErr)

\* C16 is stated as it is claimed. What the code does instead: CallStream
\* never reads res.StatusCode; a 500 response whose body is a well-framed
\* stream yields a channel and its reply is delivered.
C16_Witness ==
  /\ api = "stream" /\ status = 500
  /\ wire = <<ElStart, ElVersion, R1>>
  /\ cpc = "done" /\ cret.ch /\ cret.err = NoErr
  /\ got = <<[Error |-> <<>>, Result |-> JStr(StrFoo)]>>

\* C17: the request of a watch: with no resume commit a GET without body;
\* with a resume commit a POST whose params are ["<hex>", "<marker>"] for
\* Watch and ["<hex>"] for WatchPath.
C17_ResumeCommitIsPosted ==
  (api # "stream" /\ request # NoRequest) =>
    LET hex == JStr(HexEncodeToString(firstCommit.b)) IN
    /\ firstCommit.nil => request = [method |-> "GET", params |-> Absent]
    /\ (~firstCommit.nil /\ api = "watch") =>
         request = [method |-> "POST", params |-> JArr(<<hex, JStr(StrHei)>>)]
    /\ (~firstCommit.nil /\ api = "watchpath") =>
         request = [method |-> "POST", params |-> JArr(<<hex>>)]

\* C17 is stated as it is claimed. What the code does instead: WatchPath
\* builds a body from the resume commit 0xab12 and then calls
\* CallStream(uri, nil): the request is a GET without body, and the watch
\* opens on it.
C17_Witness ==
  /\ api = "watchpath" /\ firstCommit = Bytes(<<171, 18>>)
  /\ request = [method |-> "GET", params |-> Absent]
  /\ apc = "done" /\ aret.ch

----------------------------------------------------------------------------
(* The Value codec *)

\* The codec has encoded and decoded the Value.
RoundTripDone == api = "codec" /\ vpc = "done"
\* What a round trip that loses nothing leaves in back.
Same(v) == [err |-> FALSE, val |-> v]
\* Bytes that JSON does not allow as they are inside a string literal.
NeedsEscape(c) == c = 34 \/ c = 92 \/ c < 32
Plain(v) == \A k \in 1..Len(v) : ~NeedsEscape(v[k])
IsLowerHex(h) == \A k \in 1..Len(h) : h[k] \in 48..57 \/ h[k] \in 97..102

\* C18: every Value that is valid UTF-8, one with a double quote, a
\* backslash or a control character included, comes back from
\* UnmarshalJSON(MarshalJSON(v)) without error and unchanged.
C18_ValidUtf8RoundTrips ==
  (RoundTripDone /\ Utf8Valid(value)) => back = Same(value)

\* The Value a"b is written as the text "a"b", which is not JSON, and
\* UnmarshalJSON fails on it.
C18_Witness ==
  /\ RoundTripDone
  /\ value = <<97, 34, 98>> /\ Utf8Valid(value)
  /\ text = <<34, 97, 34, 98, 34>>
  /\ back.err

\* C19: a Value that is not valid UTF-8 is written as the object
\* { "hex" : h } with h its bytes in lower-case hex, and UnmarshalJSON of
\* that text gives the Value back, byte for byte.
C19_InvalidUtf8RoundTripsAsHex ==
  (api = "codec" /\ vpc \in {"unmarshal", "done"} /\ ~Utf8Valid(value)) =>
    LET h == UnmarshalTextHex(text) IN
    /\ ~h.err
    /\ text = HexObjectText(h.Hex)
    /\ IsLowerHex(h.Hex) /\ Len(h.Hex) = 2 * Len(value)
    /\ HexDecodeString(h.Hex) = Same(value)
    /\ vpc = "done" => back = Same(value)

\* The bytes 0xff 0x61 went out as { "hex" : "ff61" } and came back.
C19_Witness ==
  /\ RoundTripDone
  /\ value = <<255, 97>> /\ ~Utf8Valid(value)
  /\ text = <<123, 32, 34, 104, 101, 120, 34, 32, 58, 32, 34,
              102, 102, 54, 49, 34, 32, 125>>
  /\ back = Same(value)

----------------------------------------------------------------------------
(* A single-key watch and the updates of its key *)

\* A single-key watch against the store.
WatchedStore == api = "watch" /\ server = "store"
\* The Values of the Update calls that succeeded, as the caller gave them,
\* and as the store holds them.
UpdatedValues == [i \in 1..Len(Applied) |-> Applied[i].v]
HeldValues    == [i \in 1..Len(Applied) |-> Applied[i].held]
\* The Values the consumer of the watch has received.
GotValues == [i \in 1..Len(got) |-> got[i].Value]
\* Every change has gone through the decoder, the watch goroutine and both
\* channels to a consumer that is still there.
Drained ==
  /\ ~panicked /\ ~abandoned
  /\ apc = "done" /\ aret.ch
  /\ Notified(wire) = Len(Applied)
  /\ dpc = "read" /\ ch = <<>> /\ wpc = "recv" /\ out = <<>>

\* C20: with a single-key Watch open, whether or not the key was there
\* before, the Values delivered on the watch channel are those of the
\* successful Updates made since, in update order, each once: never one that
\* was not updated, none twice, none out of order, and all of them once the
\* stream has been drained.
C20_WatchDeliversUpdates ==
  WatchedStore =>
    /\ IsPrefix(GotValues, UpdatedValues)
    /\ Drained => GotValues = UpdatedValues

\* Update with the Value a\b succeeded and the watch delivered the two
\* bytes a and backspace.
C20_Witness ==
  /\ WatchedStore /\ ~panicked
  /\ Len(Applied) = 1 /\ UpdatedValues = << <<97, 92, 98>> >>
  /\ GotValues = << <<97, 8>> >>

----------------------------------------------------------------------------
(* Update, ReadString and Head *)

\* The last Update call made.
LastUpdate == updates[Len(updates)]
\* The store answered the call (it did not refuse it and was not down).
Served(u) == u.answer \notin {"error", "down"}
\* ReadString was called right after the last Update and the store answered.
ReadBack == rd.done /\ rd.kind = "store" /\ rd.n = Len(updates)

\* C21: Update with a valid UTF-8 value, one holding a double quote
\* included, succeeds whenever the store serves it, and a ReadString that
\* follows it at once returns that value and no error.
C21_UpdateThenReadString ==
  (api = "kv" /\ Len(updates) > 0 /\ Utf8Valid(LastUpdate.v) /\ Served(LastUpdate)) =>
    /\ LastUpdate.ok /\ ~panicked
    /\ ReadBack => rd.ret = [val |-> LastUpdate.v, err |-> NoErr]

\* Update with a"b: the body is no JSON, no request goes out and the
\* process panics inside Call.
C21_Witness ==
  /\ api = "kv" /\ Len(updates) = 1
  /\ updates[1].held = NoKey.val /\ ~updates[1].ok /\ updates[1].answer = "none"
  /\ Utf8Valid(LastUpdate.v) /\ ~Plain(LastUpdate.v)
  /\ panicked

\* Head was called after the last Update and the store answered.
HeadNow == hd.done /\ hd.kind = "store" /\ hd.n = Len(updates)

\* C22: Head returns nil and no error when the reply lists no commit; after
\* a successful Update that returned the hash h, Head returns bytes whose
\* lower-case hex is h; a reply with more than one result, or with a result
\* that is no hex, is an error.
C22_HeadReturnsHeadCommit ==
  (api = "kv" /\ hd.done) =>
    /\ (hd.kind = "store" /\ hd.Result = <<>>) =>
         hd.ret = [nil |-> TRUE, b |-> <<>>, err |-> NoErr]
    /\ (HeadNow /\ Len(Applied) > 0) =>
         /\ hd.ret.err = NoErr /\ ~hd.ret.nil
         /\ HexEncodeToString(hd.ret.b) = Applied[Len(Applied)].hash
    /\ (Len(hd.Result) > 1 \/ (Len(hd.Result) = 1 /\ HexDecodeString(hd.Result[1]).err)) =>
         hd.ret.err # NoErr

\* Two Updates went through and Head gives the commit of the second.
C22_Witness ==
  /\ api = "kv" /\ HeadNow
  /\ Len(Applied) = 2 /\ Applied[2].hash = <<48, 50>>
  /\ hd.ret = [nil |-> FALSE, b |-> <<2>>, err |-> NoErr]

----------------------------------------------------------------------------
(* Elements without a result *)

\* An element that decodes as a reply without a result, and is or is not
\* the end marker.
NoResult(e) == ~DecodeStreamReply(e).err /\ ResultEmpty(DecodeStreamReply(e).val)
IsEndElem(e) == e.t = "obj" /\ "stream" \in DOMAIN e.v /\ e.v.stream = JStr(StrEnd)
EmptyNotEnd(e) == NoResult(e) /\ ~IsEndElem(e)
\* A bare CallStream whose body opened well and whose elements are all
\* recorded.
FramedStream == api = "stream" /\ server = "finite" /\ WellFramed

\* C23: an element with an empty result that is not the end marker is a
\* framing error: it is the last element read, the decode goroutine is over
\* and the channel closed, and nothing without a result is ever put on the
\* channel.
C23_EmptyResultIsFramingError ==
  FramedStream =>
    /\ \A i \in 3..Len(wire) :
         EmptyNotEnd(wire[i]) => (i = Len(wire) /\ dpc = "done" /\ chClosed)
    /\ \A i \in 1..Len(Delivered) : ~ResultEmpty(Delivered[i])

\* After {"stream":"no"} the reply foo was read in its place: the consumer
\* received a reply without a result and foo is nowhere.
C23_Witness ==
  /\ FramedStream
  /\ wire = <<ElStart, ElVersion, ElOther, R1>>
  /\ dpc = "read"
  /\ got = <<[Error |-> <<>>, Result |-> Absent]>> /\ ch = <<>>

\* The place of the first end marker on the wire (0 when there is none), the
\* elements before it being replies with results.
MarkerAt ==
  IF \E m \in 3..Len(wire) : IsEndElem(wire[m])
  THEN CHOOSE m \in 3..Len(wire) :
         IsEndElem(wire[m]) /\ \A i \in 3..(m - 1) : ~IsEndElem(wire[i])
  ELSE 0
MarkedStream == FramedStream /\ MarkerAt > 0 /\ RepliesOnly(3, MarkerAt - 1)
BeforeMarker == [i \in 1..(MarkerAt - 3) |-> ReplyOf(wire[i + 2])]

\* C24: when elements follow the end marker, the stream still ends at the
\* marker: what is put on the channel is the replies before the marker, in
\* order, never the marker and never a later element, and once anything
\* behind the marker has been read the channel holds those replies and is
\* closed.
C24_NothingAfterEndMarker ==
  MarkedStream =>
    /\ IsPrefix(Delivered \o DecoderPending, BeforeMarker)
    /\ Len(wire) > MarkerAt =>
         (dpc = "done" /\ chClosed /\ Delivered = BeforeMarker)

\* The body held foo, the end marker and then bar: the consumer received
\* foo and then the marker as a reply without a result.
C24_Witness ==
  /\ MarkedStream
  /\ wire = <<ElStart, ElVersion, R1, ElEnd, R2>>
  /\ got = <<[Error |-> <<>>, Result |-> JStr(StrFoo)], [Error |-> <<>>, Result |-> Absent]>>
  /\ ~chClosed

\* The elements behind the handshake are replies with results and the body
\* then stopped: the array closed or the connection ended.
EndsUnmarked ==
  /\ FramedStream /\ RepliesOnly(3, Len(wire))
  /\ term \in {"close", "eof"}

\* C25: when the array closes or the peer closes the connection after N
\* well-formed replies and no end marker, CallStream has returned a channel
\* and no error, the N replies were put on the channel in order and nothing
\* else, and the channel is closed.
C25_EndWithoutMarkerIsNormal ==
  EndsUnmarked =>
    /\ dpc = "done" /\ chClosed
    /\ Delivered = CleanReplies
    /\ cpc = "done" => (cret.ch /\ cret.err = NoErr)

\* The connection ended behind foo and bar: the consumer has both and the
\* channel is closed.
C25_Witness ==
  /\ EndsUnmarked
  /\ wire = <<ElStart, ElVersion, R1, R2>> /\ term = "eof"
  /\ got = <<[Error |-> <<>>, Result |-> JStr(StrFoo)],
             [Error |-> <<>>, Result |-> JStr(StrBar)]>>
  /\ ch = <<>> /\ chClosed

----------------------------------------------------------------------------
(* The handshake *)

\* Step 1 failed: the first token of the body was read and is not [.
FirstTokenBad == open.tok \notin {"", "["}
\* Step 3 failed: behind [ and the start element, the version element did
\* not decode, or the body stopped in its place.
VersionBad ==
  /\ open.tok = "[" /\ Len(wire) >= 1 /\ IsStartElem(wire[1])
  /\ \/ Len(wire) >= 2 /\ DecodeVersion(wire[2]).err
     \/ Len(wire) = 1 /\ term # ""

\* C26: when the first token is not [ or the version element does not
\* decode, no decode goroutine and no watch goroutine is ever started and
\* nothing is ever put on a channel; CallStream returns no channel and a
\* non-nil error; by then the wait group is at zero, so that the closer is
\* free to close the body, and when it has run the body is closed once.
C26_HandshakeFailureIsSetupError ==
  (FirstTokenBad \/ VersionBad) =>
    /\ dpc = "none" /\ wpc = "none"
    /\ ch = <<>> /\ out = <<>> /\ got = <<>> /\ ~chClosed
    /\ cpc = "done"
    /\ ~cret.ch /\ cret.err # NoErr
    /\ \/ closer = "waiting" /\ wg = 0 /\ bodyClosed = 0
       \/ closer = "done" /\ bodyClosed = 1

\* The version element was the number 5: CallStream returned an error and
\* the body has been closed.
C26_Witness ==
  /\ VersionBad
  /\ wire = <<ElStart, ElBad>>
  /\ cpc = "done" /\ ~cret.ch /\ cret.err = Err("decode", <<>>)
  /\ closer = "done" /\ bodyClosed = 1

----------------------------------------------------------------------------
(* The connection behind a watch that has failed *)

\* WatchPath has sent its record with Error set and closed its output.
WatchPathFailed ==
  /\ api = "watchpath" /\ wpc = "done" /\ outClosed
  /\ Sent # <<>> /\ Last(Sent).Error # NoErr

\* C27: once WatchPath has delivered its error-bearing record and closed
\* its output, the connection is closed in the end, also when the server
\* keeps the stream open and keeps sending.
C27_FailedWatchPathClosesConnection == WatchPathFailed ~> (bodyClosed = 1)

\* C27 is stated as it is claimed. What the code does instead: the watch
\* goroutine has returned, nobody receives from ch, the decode goroutine
\* has filled it with 100 replies and stands at ch <- s with one more, the
\* group never reaches zero and the body stays open: no step is left.
C27_Witness ==
  /\ WatchPathFailed /\ server = "faulty"
  /\ Len(ch) = ChanCap /\ dpc = "send"
  /\ wg = 1 /\ closer = "waiting" /\ bodyClosed = 0
  /\ ~ENABLED BackgroundStep

----------------------------------------------------------------------------
(* C28 *)

\* One step of either buffer: an item enters only where there is room and
\* goes to the back, an item leaves only from the front and into the hands of
\* its consumer, and a producer leaves its send only by having appended.
BufferStep ==
  /\ ch' # ch =>
       \/ /\ dpc = "send" /\ Len(ch) < ChanCap /\ ch' = Append(ch, ds)
       \/ /\ ch # <<>> /\ ch' = Tail(ch)
          /\ \/ got' = Append(got, Head(ch))
             \/ msgs' = Append(msgs, Head(ch))
  /\ out' # out =>
       \/ /\ wpc = "send" /\ Len(out) < OutCap /\ out' = Append(out, wcur)
       \/ /\ out # <<>> /\ out' = Tail(out) /\ got' = Append(got, Head(out))
  /\ (dpc = "send" /\ dpc' # "send") => ch' = Append(ch, ds)
  /\ (wpc = "send" /\ wpc' # "send") => out' = Append(out, wcur)

\* A full buffer leaves its producer no step.
FullBlocks ==
  /\ (dpc = "send" /\ Len(ch) = ChanCap) => ~ENABLED DecodeSend
  /\ (wpc = "send" /\ Len(out) = OutCap) => ~ENABLED (WatchSend \/ WatchPathSend)

\* C28: the decoder's channel never holds more than 100 replies and a watch's
\* channel never more than 1 item; a producer facing a full buffer can take no
\* step until the consumer has taken an item; and every step appends to the
\* back or takes from the front, so that nothing is dropped or overwritten.
C28_BoundedBuffersBlockProducers ==
  /\ [](Len(ch) <= ChanCap /\ Len(out) <= OutCap /\ FullBlocks)
  /\ [][BufferStep]_vars

\* both buffers full, both producers waiting at their send
C28_Witness ==
  /\ Len(ch) = ChanCap /\ dpc = "send" /\ ~ENABLED DecodeSend
  /\ Len(out) = OutCap /\ wpc = "send" /\ ~ENABLED (WatchSend \/ WatchPathSend)
  /\ msgs # <<>>

----------------------------------------------------------------------------
(* C29 *)

PathRoundTripDone == api = "path" /\ ppc = "done"
NoEmptySegment(p) == \A i \in 1..Len(p) : p[i] # <<>>

\* C29: a Path none of whose segments is empty comes back from
\* ParseEncodedPath(path.URL().String()) without error and equal to itself,
\* segment by segment and in order.
C29_PathRoundTrips ==
  (PathRoundTripDone /\ NoEmptySegment(ppath)) =>
    /\ ~purl.panic /\ ~pback.err
    /\ Len(pback.val) = Len(ppath)
    /\ \A i \in 1..Len(ppath) : pback.val[i] = ppath[i]

\* the Path of no segment comes back as the Path of one empty segment
C29_Witness ==
  /\ PathRoundTripDone /\ ppath = <<>>
  /\ purl.str = <<>> /\ ~pback.err /\ pback.val = << <<>> >>

----------------------------------------------------------------------------
(* C30 *)

\* The body began with { and CallStream has returned.
ObjectBody == open.tok = "{" /\ cpc = "done"

\* The body is one whole JSON object with an error field, and the fields it
\* has of error and version are strings.
ErrorObject ==
  /\ open.rest.t = "obj"
  /\ "error" \in DOMAIN open.rest.v /\ open.rest.v.error.t = "str"
  /\ "version" \in DOMAIN open.rest.v => open.rest.v.version.t = "str"

\* C30: for a body that is a JSON object, CallStream starts nothing and
\* returns no channel and an error, which is "Server returned an error: "
\* followed by the server's message when the object parses and has an error
\* field, and "expected [, got {" in every other case.
C30_ObjectBodyIsError ==
  ObjectBody =>
    /\ ~cret.ch /\ dpc = "none" /\ ch = <<>>
    /\ cret.err = IF ErrorObject
                  THEN Err("Server returned an error: ", open.rest.v.error.v)
                  ELSE Err("expected [, got {", <<>>)

\* the body {"error":"baz","version":"v1"}
C30_Witness ==
  /\ ObjectBody /\ ErrorObject
  /\ ~cret.ch /\ cret.err = Err("Server returned an error: ", StrBaz)

----------------------------------------------------------------------------
(* C31 *)

\* Watch has returned a channel.
WatchReturnedChannel == api = "watch" /\ apc = "done" /\ aret.ch

\* C31: whenever Watch returns a channel, the error it returns with it is
\* nil, whatever its goroutine has done to err by the time of the return.
C31_WatchChannelComesWithNilError ==
  WatchReturnedChannel => aret.err = NoErr

\* C31 is stated as it is claimed. What the code does instead: the goroutine
\* took a message before Watch returned, a commit of it did not decode as
\* hex, and Watch returned the channel together with that error.
C31_Witness ==
  /\ WatchReturnedChannel
  /\ aret.err.kind = "hex"
  /\ msgs # <<>> /\ ~panicked

----------------------------------------------------------------------------
(* C32 *)

\* The goroutines are scheduled and the consumer of a watch goes on
\* receiving: an item it can take from the channel is taken in the end.
LiveSpec == FairSpec /\ WF_vars(WatchConsumerRecv)

\* Watch or WatchPath has handed its channel to the caller, and the body the
\* server sends has an end.
WatchOnEndingBody ==
  /\ api \in {"watch", "watchpath"} /\ apc = "done" /\ aret.ch
  /\ server \in {"finite", "long"}

\* Both goroutines are over, the output is closed and so is the body.
AllReleased ==
  /\ dpc = "done" /\ wpc = "done" /\ outClosed /\ bodyClosed = 1

\* The output is closed only behind the last reply of the stream, or behind
\* an error record.
ClosedInTime ==
  outClosed =>
    \/ chClosed /\ ch = <<>>
    \/ api = "watchpath" /\ Sent # <<>> /\ Last(Sent).Error # NoErr

\* C32: on a body that ends, with a consumer that keeps receiving, the
\* decode goroutine and the watch goroutine come to their end, the output
\* channel is closed, and not before time, and the body is closed.
C32_EndingStreamIsReleased ==
  /\ []ClosedInTime
  /\ WatchOnEndingBody ~> (abandoned \/ AllReleased)

\* C32 is stated as it is claimed. What the code does instead on a long
\* body: WatchPath gave up at the malformed first message, the consumer has
\* taken the error record and sits at the closed channel; the channel of
\* CallStream holds its 100 replies, the decode goroutine stands at ch <- s
\* with the last one, only the closing ] is unread, and no step is left.
C32_Witness ==
  /\ WatchOnEndingBody /\ server = "long" /\ ~abandoned /\ ~panicked
  /\ Len(wire) = LongReplies + 3 /\ term = ""
  /\ wpc = "done" /\ outClosed /\ out = <<>> /\ Len(got) = 1
  /\ Len(ch) = ChanCap /\ dpc = "send"
  /\ wg = 1 /\ closer = "waiting" /\ bodyClosed = 0
  /\ ~ENABLED BackgroundStep /\ ~ENABLED WatchConsumerRecv

----------------------------------------------------------------------------
(* C33 *)

\* A message that is a list of lists of values, one of them at least not of
\* two elements.
HasOddEntry(res) ==
  IsPairList(res) /\ \E i \in 1..Len(res.v) : Len(res.v[i].v) # 2

\* C33: single-key Watch, a message with an entry of 0, 1, 3 or more
\* elements: the goroutine does not panic on it and does not close the
\* output before the stream ends; what it sends for the message is the pairs
\* of its other entries, in order, right after what earlier messages
\* yielded, and what follows is what later messages yield.
C33_WatchSkipsOddEntry ==
  api = "watch" =>
    \A k \in 1..Len(msgs) :
      (HasOddEntry(msgs[k].Result) /\ MessageDone(k)) =>
        LET before == Len(ConcatPairs(SubSeq(msgs, 1, k - 1)))
            mine   == ValidPairs(msgs[k].Result)
            upto   == before + Len(mine)
        IN /\ Len(Sent) >= upto
           /\ SubSeq(Sent, before + 1, upto) = mine
           /\ (k < Len(msgs) /\ MessageDone(Len(msgs))) =>
                SubSeq(Sent, upto + 1, Len(Sent))
                  = ConcatPairs(SubSeq(msgs, k + 1, Len(msgs)))
           /\ k = Len(msgs) => ~panicked
           /\ OpenUntilStreamEnds

\* The message [["ab12"],["ab12","foo","bar"],["Cd","baz"],[]] and then
\* [["ab12","foo"]]: the consumer has the pair of the third entry and the
\* pair of the second message, and the stream has ended.
C33_Witness ==
  /\ api = "watch" /\ ~panicked
  /\ Len(msgs) = 2 /\ msgs[1].Result = W4 /\ msgs[2].Result = W1
  /\ got = <<[Commit |-> <<205>>, Value |-> StrBaz],
             [Commit |-> <<171, 18>>, Value |-> StrFoo]>>
  /\ outClosed /\ chClosed

----------------------------------------------------------------------------
(* C34 *)

\* Call number k was an Update the server answered with a hash and nothing
\* else.
UpdateSucceeded(k) == vcalls[k].op = "update" /\ vcalls[k].kind = "result"

\* The View as call number k found it: the View of the call before, or the
\* one CreateView made.
ViewBefore(k) == IF k = 1 THEN vcalls[1].before ELSE vcalls[k - 1].after

\* C34: an Update the server answers with a hash returns that hash without
\* error and leaves it as the node of the View, head and path as they were;
\* every other call, whatever it is and however it ends, leaves the whole
\* View as it was; and the command of every call names the node the View
\* has at that moment.
C34_ViewNodeMovesOnSuccessOnly ==
  api = "view" =>
    /\ vcalls # <<>> => view = vcalls[Len(vcalls)].after
    /\ \A k \in 1..Len(vcalls) :
         /\ vcalls[k].before = ViewBefore(k)
         /\ vcalls[k].node = QueryEscape(ViewBefore(k).node)
         /\ IF UpdateSucceeded(k)
            THEN /\ vcalls[k].err = NoErr
                 /\ vcalls[k].ret = vcalls[k].Result
                 /\ vcalls[k].after = [ViewBefore(k) EXCEPT !.node = vcalls[k].Result]
            ELSE /\ vcalls[k].after = ViewBefore(k)
                 /\ vcalls[k].op = "update" => vcalls[k].err # NoErr \/ panicked

\* An Update that took and an Update answered with an error and a hash:
\* the second named the node of the first, which is still the node.
C34_Witness ==
  /\ api = "view" /\ Len(vcalls) = 2 /\ ~panicked
  /\ UpdateSucceeded(1)
  /\ vcalls[2].op = "update" /\ vcalls[2].kind = "both"
  /\ vcalls[2].node = NodeHash(1) /\ vcalls[2].err # NoErr
  /\ view.node = NodeHash(1) /\ view.head = vcalls[1].before.head

----------------------------------------------------------------------------
(* C35 *)

\* A text of slashes and spaces only has gone through both parsers.
RootTextParsed == api = "path" /\ ppc = "parsed"

\* C35: ParsePath and ParseEncodedPath make of the empty text, of / and of
\* any text of slashes and spaces the Path of no segment, whose String() is
\* empty and whose URL is empty.
C35_RootTextParsesToRoot ==
  RootTextParsed =>
    /\ proot.plain = <<>> /\ proot.plainString = <<>> /\ proot.plainURL = <<>>
    /\ ~proot.err
    /\ proot.enc = <<>> /\ proot.encString = <<>> /\ proot.encURL = <<>>

\* C35 is stated as it is claimed. What the code does instead for the text
\* /: both parsers return the Path of one empty segment, whose String() is /
\* and whose URL is /.
C35_Witness ==
  /\ RootTextParsed /\ ptext = <<47>>
  /\ proot.plain = << <<>> >> /\ proot.plainString = <<47>> /\ proot.plainURL = <<47>>
  /\ ~proot.err
  /\ proot.enc = << <<>> >> /\ proot.encString = <<47>> /\ proot.encURL = <<47>>

====
